---- MODULE Spec2Model ----
(***************************************************************************)
(* A model of the file-backed document store of discord-ollama: the path   *)
(* confinement gate (utils/pathSafety.ts), the locked read-modify-write    *)
(* store (utils/handlers/configHandler.ts, chatHistoryHandler.ts), the     *)
(* bounded history queue (queues/queue.ts) and the part of the message     *)
(* handler (events/messageCreate.ts) that loads, extends and saves a       *)
(* user's history through the queue shared by all handlers (client.ts).    *)
(*                                                                         *)
(* Strings are sequences of one-character strings.  JavaScript runs one    *)
(* task at a time, so the code between two awaits is one atomic action;    *)
(* every filesystem call is an action of its own.                          *)
(***************************************************************************)
EXTENDS Integers, Sequences, FiniteSets, TLC

VARIABLES
    filename,      \* pathSafety: the argument of getSafeDataPath
    safeName,      \* pathSafety: what sanitizeFilename did with it
    resolved,      \* pathSafety: what getSafeDataPath did with it
    q,             \* queue.ts: one Queue object, [storage, capacity]
    pushed,        \* the items enqueued on q since its last other mutation
    qret,          \* the last call made on q: what it was and whether it threw
    fs,            \* the data directory: the text of each <key>.json
    tmp,           \* the data directory: the text of each <key>.json.tmp
    mutex,         \* the Mutex objects of the two FileLockManagers, per file
    callOrder,     \* per manager and file, the callers of withLock in call order
    pc,            \* where each store call stands
    op,            \* the store call each process makes, with its arguments
    obj,           \* the object a call is about to write
    ret,           \* what each finished call returned or threw
    fs0,           \* the data directory as it was at the start
    crashed,       \* whether the process has been stopped
    faults,        \* the processes whose fs call failed, not with ENOENT
    msgHist,       \* client.ts: messageHistory, the Queue every handler is given
    hpc,           \* where the message handler of each user's mention stands
    loaded,        \* the history each handler read from the user's file
    saving,        \* the messages each handler passed to saveChannelInfo
    chanHist,      \* client.ts: channelMessageHistory, given to every handler
    ctxSaving,     \* the messages each handler passed to saveChannelContext
    now,           \* Date.now(), in units of 30 seconds since the limiter was made
    cooldowns,     \* rateLimiter.ts: the map from user id to recorded expiry
    cooldownMs,    \* rateLimiter.ts: the cooldown, in the same units
    cleanupDue,    \* when the cleanup interval fires next, 0 once it is cleared
    allowed,       \* per user, when isRateLimited last returned false and
                   \* whether the user's cooldown was cleared since
    rlret,         \* the last call made on the limiter and what it returned
    interaction,   \* the command each process runs: who runs it, how far it
                   \* is, and the replies it has sent
    models,        \* the models in the Ollama library
    clientUp,      \* whether the Discord client is connected
    mentions,      \* whether each user's message mentions the bot
    authorTag,     \* message.author.tag of each user
    racing         \* history: the calls in progress on a file when a delete removed it

pathVars == <<filename, safeName, resolved>>
queueVars == <<q, pushed, qret>>
storeVars == <<fs, tmp, mutex, callOrder, pc, op, obj, ret, fs0, crashed, faults, racing>>
procVars == <<tmp, mutex, callOrder, pc, op, obj, ret, fs0, crashed, faults, racing>>
contextVars == <<chanHist, ctxSaving>>
handlerVars == <<msgHist, hpc, loaded, saving, contextVars>>
limiterVars == <<now, cooldowns, cooldownMs, cleanupDue, allowed, rlret>>
commandVars == <<interaction, models, clientUp>>
messageVars == <<mentions, authorTag>>
vars == <<filename, safeName, resolved, q, pushed, qret, fs, tmp, mutex, callOrder, pc, op, obj, ret,
          fs0, crashed, faults, msgHist, hpc, loaded, saving, chanHist, ctxSaving,
          now, cooldowns, cooldownMs, cleanupDue, allowed, rlret,
          interaction, models, clientUp, mentions, authorTag, racing>>

\* What the store calls, the queue operations and getSafeDataPath leave alone;
\* a store call that meets no failure of the file system adds none.
outsideStore == <<pathVars, queueVars, handlerVars, faults, racing, limiterVars, commandVars, messageVars>>
outsideQueue == <<pathVars, storeVars, handlerVars, limiterVars, commandVars, messageVars>>
outsidePath == <<queueVars, storeVars, handlerVars, limiterVars, commandVars, messageVars>>
outsideLimiter == <<pathVars, queueVars, storeVars, handlerVars, commandVars, messageVars>>
outsideCommands == <<pathVars, queueVars, storeVars, handlerVars, limiterVars, messageVars>>

(***************************************************************************)
(* Bounds of the model.                                                    *)
(***************************************************************************)
MaxRawLen == 4        \* longest of the short filenames given to getSafeDataPath
MaxHeadLen == 1       \* longest varied head of the filenames about 255 long
MaxCapacity == 3      \* largest capacity a queue is constructed with
MaxItem == 2          \* items enqueued are drawn from 1..MaxItem
MaxNewLen == 2        \* longest array given to setQueue
MaxPushed == 4        \* longest run of enqueues that is recorded
NumProcs == 2         \* store calls that run concurrently
NumUsers == 2         \* users whose mentions are handled concurrently
MaxCooldown == 2      \* longest cooldown, in units of 30 seconds
Rounds == 2           \* cleanup intervals for which the clock is followed

(***************************************************************************)
(* utils/pathSafety.ts                                                     *)
(***************************************************************************)
\* The characters a filename is made of: an ordinary character, the dot,
\* both separators, the NUL byte, one other control character, and the
\* underscore the sanitizer substitutes.
Chars == {"x", ".", "/", "\\", "NUL", "CTL", "_"}

RECURSIVE StringsUpTo(_)
StringsUpTo(n) ==
    IF n = 0 THEN {<<>>}
    ELSE LET shorter == StringsUpTo(n - 1)
         IN  shorter \cup {Append(s, c) : s \in {t \in shorter : Len(t) = n - 1}, c \in Chars}

\* path.sep of the platform the bot runs on (POSIX).
sep == "/"

\* process.cwd(), some absolute directory.
cwd == <<"/", "w">>

LengthCeiling == 255

\* String.prototype.startsWith
startsWith(s, prefix) ==
    /\ Len(prefix) <= Len(s)
    /\ SubSeq(s, 1, Len(prefix)) = prefix

\* The segments of a path: the text between separators.
Segments(s) ==
    LET cuts == {0, Len(s) + 1} \cup {i \in 1..Len(s) : s[i] = sep}
        cut(k) == CHOOSE c \in cuts : Cardinality({d \in cuts : d < c}) = k - 1
    IN  [k \in 1..(Cardinality(cuts) - 1) |-> SubSeq(s, cut(k) + 1, cut(k + 1) - 1)]

\* Normalisation of the segments of an absolute path: drop "" and ".",
\* let ".." remove the segment before it (nothing above the root).
RECURSIVE Normalized(_, _, _)
Normalized(segs, i, stack) ==
    IF i > Len(segs) THEN stack
    ELSE IF segs[i] = <<>> \/ segs[i] = <<".">> THEN Normalized(segs, i + 1, stack)
    ELSE IF segs[i] = <<".", ".">>
         THEN Normalized(segs, i + 1,
                         IF stack = <<>> THEN stack ELSE SubSeq(stack, 1, Len(stack) - 1))
    ELSE Normalized(segs, i + 1, Append(stack, segs[i]))

RECURSIVE Joined(_, _)
Joined(stack, i) ==
    IF i > Len(stack) THEN <<>>
    ELSE <<sep>> \o stack[i] \o Joined(stack, i + 1)

\* path.resolve of an absolute path: the normalised path, no trailing separator.
pathResolve(p) ==
    LET stack == Normalized(Segments(p), 1, <<>>)
    IN  IF stack = <<>> THEN <<sep>> ELSE Joined(stack, 1)

\* path.join(a, b) followed by path.resolve, as getSafeDataPath applies them.
pathJoin(a, b) == a \o <<sep>> \o b

DATA_DIR == pathResolve(pathJoin(cwd, <<"d", "a", "t", "a">>))

\* The length of the run of dots a string starts with.
RECURSIVE LeadingDots(_, _)
LeadingDots(s, i) ==
    IF i <= Len(s) /\ s[i] = "." THEN LeadingDots(s, i + 1) ELSE i - 1

Thrown == [kind |-> "throw", path |-> <<>>]
Returned(p) == [kind |-> "path", path |-> p]

\* The replacements of sanitizeFilename with control characters left in.
stripped_KeepControl(input) ==
    LET noNul == SelectSeq(input, LAMBDA c : c # "NUL")
        noSep == [i \in 1..Len(noNul) |->
                     IF noNul[i] \in {"/", "\\"} THEN "_" ELSE noNul[i]]
        dots  == LeadingDots(noSep, 1)
    IN  IF dots > 0 THEN <<"_">> \o SubSeq(noSep, dots + 1, Len(noSep)) ELSE noSep

\* The four replacements of sanitizeFilename, in the order of the source.
stripped(input) ==
    LET noNul == SelectSeq(input, LAMBDA c : c # "NUL")
        noSep == [i \in 1..Len(noNul) |->
                     IF noNul[i] \in {"/", "\\"} THEN "_" ELSE noNul[i]]
        noCtl == [i \in 1..Len(noSep) |->
                     IF noSep[i] \in {"NUL", "CTL"} THEN "_" ELSE noSep[i]]
        dots  == LeadingDots(noCtl, 1)
    IN  IF dots > 0 THEN <<"_">> \o SubSeq(noCtl, dots + 1, Len(noCtl)) ELSE noCtl

\* sanitizeFilename that rejects what is longer than the ceiling.
sanitizeFilename_RejectLong(input) ==
    IF input = <<>> \/ Len(stripped(input)) > LengthCeiling \/ Len(stripped(input)) = 0
    THEN Thrown
    ELSE Returned(stripped(input))

\* sanitizeFilename with the leading-dot replacement left out.
sanitizeFilename_KeepDots(input) ==
    IF input = <<>> THEN Thrown
    ELSE LET noNul == SelectSeq(input, LAMBDA c : c # "NUL")
             noSep == [i \in 1..Len(noNul) |->
                          IF noNul[i] \in {"/", "\\"} THEN "_" ELSE noNul[i]]
             noCtl == [i \in 1..Len(noSep) |->
                          IF noSep[i] \in {"NUL", "CTL"} THEN "_" ELSE noSep[i]]
         IN  IF Len(noCtl) = 0 THEN Thrown ELSE Returned(noCtl)

sanitizeFilename(input) ==
    IF input = <<>> THEN Thrown
    ELSE LET s == stripped(input)
             sanitized == IF Len(s) > LengthCeiling THEN SubSeq(s, 1, LengthCeiling) ELSE s
         IN  IF Len(sanitized) = 0 THEN Thrown ELSE Returned(sanitized)

getSafeDataPath(name) ==
    LET sanitized == sanitizeFilename(name)
    IN  IF sanitized.kind = "throw" THEN Thrown
        ELSE LET fullPath == pathJoin(DATA_DIR, sanitized.path)
                 resolvedPath == pathResolve(fullPath)
             IN  IF ~startsWith(resolvedPath, DATA_DIR \o <<sep>>) /\ resolvedPath # DATA_DIR
                 THEN Thrown
                 ELSE Returned(resolvedPath)

NotCalled == [kind |-> "none", path |-> <<>>]

\* Filenames about as long as the ceiling: any short head, then ordinary
\* characters up to one less than the ceiling, the ceiling, or one more.
LongNames ==
    {head \o [i \in 1..n |-> "x"] :
        head \in StringsUpTo(MaxHeadLen),
        n \in (LengthCeiling - 1)..(LengthCeiling + 1)}

InitPath ==
    /\ filename \in StringsUpTo(MaxRawLen) \cup LongNames
    /\ safeName = NotCalled
    /\ resolved = NotCalled

\* One call of getSafeDataPath on the chosen filename, with the
\* sanitizeFilename call it makes.
GetSafeDataPath ==
    /\ resolved = NotCalled
    /\ safeName' = sanitizeFilename(filename)
    /\ resolved' = getSafeDataPath(filename)
    /\ UNCHANGED <<filename, outsidePath>>

(***************************************************************************)
(* queues/queue.ts                                                         *)
(***************************************************************************)
Items == 1..MaxItem

\* new Queue(capacity): the constructor rejects a capacity below 1.
NewQueue(capacity) == [storage |-> <<>>, capacity |-> capacity]

size(queue) == Len(queue.storage)

getItems(queue) == queue.storage

\* dequeue(): storage.shift()
dequeue(queue) ==
    [queue EXCEPT !.storage = IF Len(@) = 0 THEN @ ELSE Tail(@)]

\* removeLast(): storage.pop()
removeLast(queue) ==
    [queue EXCEPT !.storage = IF Len(@) = 0 THEN @ ELSE SubSeq(@, 1, Len(@) - 1)]

\* An "if" in place of the loop: one item at most is dequeued.
evicted_Once(queue) ==
    IF size(queue) >= queue.capacity /\ size(queue) > 0 THEN dequeue(queue) ELSE queue

\* The loop "while (size() >= capacity) dequeue()"; capacity is at least 1.
RECURSIVE evicted(_)
evicted(queue) ==
    IF size(queue) >= queue.capacity /\ size(queue) > 0
    THEN evicted(dequeue(queue))
    ELSE queue

\* enqueue that evicts only when the queue is over its capacity.
enqueue_EvictLate(queue, item) ==
    LET room == IF size(queue) > queue.capacity THEN dequeue(queue) ELSE queue
    IN  [room EXCEPT !.storage = Append(@, item)]

enqueue(queue, item) ==
    [evicted(queue) EXCEPT !.storage = Append(@, item)]

\* setQueue that keeps the first `capacity` items of an array that is too long.
setQueue_Truncate(queue, newQueue) ==
    [ok |-> TRUE,
     queue |-> [queue EXCEPT !.storage =
                   IF Len(newQueue) > queue.capacity
                   THEN SubSeq(newQueue, 1, queue.capacity) ELSE newQueue]]

\* setQueue(newQueue): ok is FALSE when it throws.
setQueue(queue, newQueue) ==
    IF Len(newQueue) > queue.capacity
    THEN [ok |-> FALSE, queue |-> queue]
    ELSE [ok |-> TRUE, queue |-> [queue EXCEPT !.storage = newQueue]]

clear(queue) == [queue EXCEPT !.storage = <<>>]

\* The arrays given to setQueue.
ItemSeqs == UNION {[1..n -> Items] : n \in 0..MaxNewLen}

MinCapacity == 1

MaxAllowedCapacity == 100

\* validateCapacity without the lower limit.
validCapacity_NoFloor(input) == input <= MaxAllowedCapacity

\* validateCapacity(input) for an integer: whether it is accepted.
validCapacity(input) == input >= MinCapacity /\ input <= MaxAllowedCapacity

\* The capacities read from a user's configuration: some below, some within
\* and one above the range validateCapacity accepts.
CapacityInputs == 0..MaxCapacity \cup {MaxAllowedCapacity + 1}

NoCall == [op |-> "none", threw |-> FALSE, was |-> 0, arg |-> <<>>]

\* A call on a queue of the given size; arg is the array given to setQueue.
Call(name, threw, was, arg) == [op |-> name, threw |-> threw, was |-> was, arg |-> arg]

InitQueue ==
    /\ \E c \in 1..MaxCapacity : q = NewQueue(c)
    /\ pushed = <<>>
    /\ qret = NoCall

Enqueue ==
    \E item \in Items :
        /\ Len(pushed) < MaxPushed
        /\ q' = enqueue(q, item)
        /\ pushed' = Append(pushed, item)
        /\ qret' = Call("enqueue", FALSE, size(q), <<>>)
        /\ UNCHANGED outsideQueue

Dequeue ==
    /\ q' = dequeue(q)
    /\ pushed' = <<>>
    /\ qret' = Call("dequeue", FALSE, size(q), <<>>)
    /\ UNCHANGED outsideQueue

RemoveLast ==
    /\ q' = removeLast(q)
    /\ pushed' = <<>>
    /\ qret' = Call("removeLast", FALSE, size(q), <<>>)
    /\ UNCHANGED outsideQueue

SetQueue ==
    \E newQueue \in ItemSeqs :
        /\ q' = setQueue(q, newQueue).queue
        /\ pushed' = <<>>
        /\ qret' = Call("setQueue", ~setQueue(q, newQueue).ok, size(q), newQueue)
        /\ UNCHANGED outsideQueue

Clear ==
    /\ q' = clear(q)
    /\ pushed' = <<>>
    /\ qret' = Call("clear", FALSE, size(q), <<>>)
    /\ UNCHANGED outsideQueue

\* messageCreate.ts, lines 179 to 189: the capacity of the user's
\* configuration is assigned when validateCapacity accepts it.
SetCapacity ==
    \E input \in CapacityInputs :
        /\ q' = IF validCapacity(input) THEN [q EXCEPT !.capacity = input] ELSE q
        /\ pushed' = <<>>
        /\ qret' = Call("capacity", ~validCapacity(input), size(q), <<>>)
        /\ UNCHANGED outsideQueue

(***************************************************************************)
(* Documents and their text.                                               *)
(*                                                                         *)
(* A JSON object is a record that lists the fields it has; a field it      *)
(* does not have holds that field's empty value.  options is the sequence  *)
(* of <<key, value>> pairs in the order JSON.stringify prints them.  The   *)
(* text of a file is absent (no file), empty, not parseable, or the        *)
(* serialisation of an object.                                             *)
(***************************************************************************)
Str(i) == [type |-> "string", v |-> i]
Num(n) == [type |-> "number", v |-> n]
Bool(b) == [type |-> "boolean", v |-> b]

\* null, and the numbers that are not integers: n + 0.5 ("half"), Infinity
\* and NaN.
Null == [type |-> "null", v |-> 0]
Special(n, what) == [type |-> "number", v |-> n, what |-> what]

NoObject == [has |-> {}, name |-> "", options |-> <<>>, id |-> "", user |-> "",
             messages |-> <<>>]

Absent == [kind |-> "absent", obj |-> NoObject]
EmptyText == [kind |-> "empty", obj |-> NoObject]
Garbage == [kind |-> "garbage", obj |-> NoObject]

\* JSON.stringify(object, null, 2): only the fields the object has are printed.
JSONstringify(object) ==
    [kind |-> "json",
     obj |-> [has |-> object.has,
              name |-> IF "name" \in object.has THEN object.name ELSE "",
              options |-> IF "options" \in object.has THEN object.options ELSE <<>>,
              id |-> IF "id" \in object.has THEN object.id ELSE "",
              user |-> IF "user" \in object.has THEN object.user ELSE "",
              messages |-> IF "messages" \in object.has THEN object.messages ELSE <<>>]]

\* JSON.parse(data): a SyntaxError for the empty string and for text that
\* is not JSON.
JSONparse(data) ==
    IF data.kind = "json" THEN [ok |-> TRUE, obj |-> data.obj]
    ELSE [ok |-> FALSE, obj |-> NoObject]

\* The option keys of the commands, and the values given to them.
UserKeys == {"switch-model", "modify-capacity"}
ServerKeys == {"toggle-chat"}
OptionKeys == UserKeys \cup ServerKeys

ValuesOf(key) ==
    CASE key = "switch-model" -> {Str(1), Str(2)}
      [] key = "modify-capacity" -> {Num(2)}
      [] OTHER -> {Bool(0)}

\* isServerConfigurationKey(key)
isServerConfigurationKey(key) == key \in ServerKeys

keyIndex(options, key) ==
    LET at == {i \in 1..Len(options) : options[i][1] = key}
    IN  IF at = {} THEN 0 ELSE CHOOSE i \in at : TRUE

hasOption(options, key) == keyIndex(options, key) # 0

optionValue(options, key) == options[keyIndex(options, key)][2]

\* options[key] = value replacing the whole mapping.
assigned_Replace(options, key, value) == <<(<<key, value>>)>>

\* options[key] = value that adds the key again when it is there already.
assigned_Append(options, key, value) == Append(options, <<key, value>>)

\* options[key] = value: an existing key keeps its place, a new one goes last.
assigned(options, key, value) ==
    IF hasOption(options, key)
    THEN [options EXCEPT ![keyIndex(options, key)] = <<key, value>>]
    ELSE Append(options, <<key, value>>)

\* createDefaultConfig(key, value)
createDefaultConfig(key, value) ==
    [NoObject EXCEPT
        !.has = {"name", "options"},
        !.name = IF isServerConfigurationKey(key)
                 THEN "Server Configurations" ELSE "User Configurations",
        !.options = <<(<<key, value>>)>>]

\* openConfig, lines 96 to 104: the parsed object with the key updated.
updatedConfig(object, key, value) ==
    [object EXCEPT
        !.has = @ \cup {"options"},
        !.options = assigned(IF "options" \in object.has THEN @ ELSE <<>>, key, value)]

\* A message of a history: its role and its content.
Msg(role, content) == [role |-> role, content |-> content]

\* The Channel object of saveChannelInfo and saveChannelContext.
channelInfo(id, name, user, messages) ==
    [NoObject EXCEPT
        !.has = {"id", "name", "user", "messages"},
        !.id = id, !.name = name, !.user = user, !.messages = messages]

(***************************************************************************)
(* The store calls.                                                        *)
(***************************************************************************)
Procs == 1..NumProcs

Users == 1..NumUsers

\* The usernames of the users, and the snowflake of the channel they write in.
usernames == <<"ann", "bob", "cy", "dee">>
username(u) == usernames[u]
channelId == "1001"

\* The file name `${a}-${b}.json`, as the pair of its two parts.
fileName(a, b) == <<a, b>>

\* The files of the data directory: each user's configuration
\* (<username>-config.json) and history in one channel
\* (<channelId>-<username>.json), and the channel's context
\* (<channelId>-context.json).
ConfigFile(u) == fileName(username(u), "config")
HistoryFile(u) == fileName(channelId, username(u))
ContextFile == fileName(channelId, "context")

\* User.tag of discord.js: the username, followed by '#' and the
\* discriminator for the accounts that still have one.
legacyTags == <<"ann#0420", "bob#0420", "cy#0420", "dee#0420">>
tags(u) == {username(u), legacyTags[u]}

\* The file saveChannelInfo(channelId, channel, tag, messages) writes:
\* <channelId>-<validateUsername(tag)>.json, where the '#' stays.
SavedHistoryFile(tag) == fileName(channelId, tag)

\* The server's configuration, <guildId>-config.json.
guildId == "2002"
ServerConfigFile == fileName(guildId, "config")

\* Two more users: one whose username is "config", and one whose username
\* is the digits of the channel's snowflake.  The history of the first in
\* the channel and the configuration of the second have the same name.
HistoryFileOfConfig == fileName(channelId, "config")
ConfigFileOfDigits == fileName(channelId, "config")

Files ==
    {ConfigFile(u) : u \in Users} \cup {HistoryFile(u) : u \in Users} \cup
    {SavedHistoryFile(legacyTags[u]) : u \in Users} \cup
    {ContextFile, HistoryFileOfConfig, ConfigFileOfDigits, ServerConfigFile}

\* The files the store calls of the processes are made on.
cfg == ConfigFile(1)
hist == HistoryFile(1)
ctx == ContextFile

\* configHandler.ts and chatHistoryHandler.ts each have their own fileLocks.
Managers == {"config", "chat"}

NoOp == [name |-> "none", file |-> cfg, key |-> "", value |-> Num(0), messages |-> <<>>]

NoResult == [kind |-> "none", data |-> Absent]
Result(kind) == [kind |-> kind, data |-> Absent]
Document(data) == [kind |-> "doc", data |-> data]

\* A Mutex of async-mutex: its holder (0 when free) and the callers waiting.
NoMutex == [made |-> FALSE, holder |-> 0, waiters |-> <<>>]

\* getLock that makes a new Mutex at every call: the caller never waits.
acquired_Fresh(mx, p) == [mx EXCEPT !.made = TRUE, !.holder = p]

\* getLock (the Mutex is created on first use) and acquire.
acquired(mx, p) ==
    IF mx.holder = 0
    THEN [mx EXCEPT !.made = TRUE, !.holder = p]
    ELSE [mx EXCEPT !.waiters = Append(@, p)]

\* release: the lock passes to the caller that has waited longest.
released(mx) ==
    IF mx.waiters = <<>>
    THEN [mx EXCEPT !.holder = 0]
    ELSE [mx EXCEPT !.holder = Head(mx.waiters), !.waiters = Tail(mx.waiters)]

\* The first filesystem call of each locked operation.
Entry(name) ==
    CASE name = "openConfig" -> "oc_read"
      [] name = "clearChannelInfo" -> "cl_read"
      [] OTHER -> "sv_open"

\* withLock whose getLock hands out one Mutex whatever the path.
WithLock_OneMutex(p, m, f, name) ==
    /\ mutex' = [mutex EXCEPT ![m][cfg] = acquired(@, p)]
    /\ callOrder' = [callOrder EXCEPT ![m][f] = Append(@, p)]
    /\ pc' = [pc EXCEPT ![p] =
                 IF acquired(mutex[m][cfg], p).holder = p THEN Entry(name) ELSE "wait"]

\* fileLocks.withLock(file, operation) called by p: synchronous up to the
\* first await, so the caller takes its place in the queue at once.
WithLock(p, m, f, name) ==
    /\ mutex' = [mutex EXCEPT ![m][f] = acquired(@, p)]
    /\ callOrder' = [callOrder EXCEPT ![m][f] = Append(@, p)]
    /\ pc' = [pc EXCEPT ![p] =
                 IF acquired(mutex[m][f], p).holder = p THEN Entry(name) ELSE "wait"]

\* runExclusive that releases the lock only when the operation returns.
Unlock_KeptOnThrow(p, m, f, r) ==
    LET mx == mutex[m][f]
    IN  /\ mutex' = IF r.kind = "error" THEN mutex
                    ELSE [mutex EXCEPT ![m][f] = released(@)]
        /\ pc' = IF mx.waiters = <<>> \/ r.kind = "error"
                 THEN [pc EXCEPT ![p] = "done"]
                 ELSE [pc EXCEPT ![p] = "done",
                                 ![Head(mx.waiters)] = Entry(op[Head(mx.waiters)].name)]
        /\ ret' = [ret EXCEPT ![p] = r]

\* The operation of p ends (returning or throwing r); runExclusive releases
\* the lock and the next waiter's operation starts.
Unlock(p, m, f, r) ==
    LET mx == mutex[m][f]
    IN  /\ mutex' = [mutex EXCEPT ![m][f] = released(@)]
        /\ pc' = IF mx.waiters = <<>>
                 THEN [pc EXCEPT ![p] = "done"]
                 ELSE [pc EXCEPT ![p] = "done",
                                 ![Head(mx.waiters)] = Entry(op[Head(mx.waiters)].name)]
        /\ ret' = [ret EXCEPT ![p] = r]

\* openConfig that starts to read without taking the lock.
OpenConfig_NoLock(p) ==
    /\ ~crashed
    /\ pc[p] = "idle"
    /\ \E key \in OptionKeys : \E value \in ValuesOf(key) :
          op' = [op EXCEPT ![p] = [NoOp EXCEPT !.name = "openConfig", !.file = cfg,
                                               !.key = key, !.value = value]]
    /\ callOrder' = [callOrder EXCEPT !["config"][cfg] = Append(@, p)]
    /\ pc' = [pc EXCEPT ![p] = "oc_read"]
    /\ UNCHANGED <<fs, tmp, mutex, obj, ret, fs0, crashed, outsideStore>>

\* openConfig(filename, key, value), lines 83 to 90.
OpenConfig(p) ==
    /\ ~crashed
    /\ pc[p] = "idle"
    /\ \E key \in OptionKeys : \E value \in ValuesOf(key) :
          op' = [op EXCEPT ![p] = [NoOp EXCEPT !.name = "openConfig", !.file = cfg,
                                               !.key = key, !.value = value]]
    /\ WithLock(p, "config", cfg, "openConfig")
    /\ UNCHANGED <<fs, tmp, obj, ret, fs0, crashed, outsideStore>>

\* openConfig(`${safeUsername}-config.json`, key, value) for the user whose
\* username is the digits of the channel's snowflake.
OpenConfigOfDigits(p) ==
    /\ ~crashed
    /\ pc[p] = "idle"
    /\ \E key \in UserKeys : \E value \in ValuesOf(key) :
          op' = [op EXCEPT ![p] = [NoOp EXCEPT !.name = "openConfig",
                                               !.file = ConfigFileOfDigits,
                                               !.key = key, !.value = value]]
    /\ WithLock(p, "config", ConfigFileOfDigits, "openConfig")
    /\ UNCHANGED <<fs, tmp, obj, ret, fs0, crashed, outsideStore>>

\* The way out of openConfig, with or without the lock held.
OpenConfigEnd(p, r) ==
    IF mutex["config"][op[p].file].holder = p
    THEN Unlock(p, "config", op[p].file, r)
    ELSE /\ pc' = [pc EXCEPT ![p] = "done"]
         /\ ret' = [ret EXCEPT ![p] = r]
         /\ UNCHANGED mutex

\* readFile returns (lines 93 to 108) or fails (lines 111 to 117).
OpenConfigRead(p) ==
    LET f == op[p].file
        parsed == JSONparse(fs[f])
    IN  /\ ~crashed
        /\ pc[p] = "oc_read"
        /\ IF fs[f].kind = "absent"
           THEN \* ENOENT: the catch block builds the default and creates the file
                /\ obj' = [obj EXCEPT ![p] = createDefaultConfig(op[p].key, op[p].value)]
                /\ pc' = [pc EXCEPT ![p] = "oc_create_open"]
                /\ UNCHANGED <<mutex, ret>>
           ELSE IF ~parsed.ok
           THEN \* SyntaxError: rethrown as "Failed to update config"
                /\ OpenConfigEnd(p, Result("error"))
                /\ UNCHANGED obj
           ELSE /\ obj' = [obj EXCEPT ![p] = updatedConfig(parsed.obj, op[p].key, op[p].value)]
                /\ pc' = [pc EXCEPT ![p] = "oc_tmp_open"]
                /\ UNCHANGED <<mutex, ret>>
        /\ UNCHANGED <<fs, tmp, callOrder, op, fs0, crashed, outsideStore>>

\* writeFile(tempFile, ...) opens the temporary file, truncating it.
OpenConfigTmpOpen(p) ==
    /\ ~crashed
    /\ pc[p] = "oc_tmp_open"
    /\ tmp' = [tmp EXCEPT ![op[p].file] = EmptyText]
    /\ pc' = [pc EXCEPT ![p] = "oc_tmp_write"]
    /\ UNCHANGED <<fs, mutex, callOrder, op, obj, ret, fs0, crashed, outsideStore>>

\* writeFile(tempFile, ...) writes the text and returns (line 108).
OpenConfigTmpWrite(p) ==
    /\ ~crashed
    /\ pc[p] = "oc_tmp_write"
    /\ tmp' = [tmp EXCEPT ![op[p].file] = JSONstringify(obj[p])]
    /\ pc' = [pc EXCEPT ![p] = "oc_rename"]
    /\ UNCHANGED <<fs, mutex, callOrder, op, obj, ret, fs0, crashed, outsideStore>>

\* rename(tempFile, fullFileName) (line 109); ENOENT when the temporary file
\* is gone, which the catch block takes for a missing configuration.
OpenConfigRename(p) ==
    LET f == op[p].file
    IN  /\ ~crashed
        /\ pc[p] = "oc_rename"
        /\ IF tmp[f].kind = "absent"
           THEN /\ obj' = [obj EXCEPT ![p] = createDefaultConfig(op[p].key, op[p].value)]
                /\ pc' = [pc EXCEPT ![p] = "oc_create_open"]
                /\ UNCHANGED <<fs, tmp, mutex, ret>>
           ELSE /\ fs' = [fs EXCEPT ![f] = tmp[f]]
                /\ tmp' = [tmp EXCEPT ![f] = Absent]
                /\ OpenConfigEnd(p, Result("void"))
                /\ UNCHANGED obj
        /\ UNCHANGED <<callOrder, op, fs0, crashed, outsideStore>>

\* mkdir, then writeFile(fullFileName, ...) opens the configuration file
\* itself, creating it empty (lines 117 to 120).
OpenConfigCreateOpen(p) ==
    /\ ~crashed
    /\ pc[p] = "oc_create_open"
    /\ fs' = [fs EXCEPT ![op[p].file] = EmptyText]
    /\ pc' = [pc EXCEPT ![p] = "oc_create_write"]
    /\ UNCHANGED <<tmp, mutex, callOrder, op, obj, ret, fs0, crashed, outsideStore>>

\* writeFile(fullFileName, ...) writes the text and returns (lines 120 to 126).
OpenConfigCreateWrite(p) ==
    /\ ~crashed
    /\ pc[p] = "oc_create_write"
    /\ fs' = [fs EXCEPT ![op[p].file] = JSONstringify(obj[p])]
    /\ OpenConfigEnd(p, Result("void"))
    /\ UNCHANGED <<tmp, callOrder, op, obj, fs0, crashed, outsideStore>>

\* getUserConfig and getServerConfig once readFile has returned or failed.
readConfig(data) ==
    LET parsed == JSONparse(data)
    IN  IF data.kind = "absent" THEN Result("null")
        ELSE IF data.kind = "empty" THEN Result("error")
        ELSE IF ~parsed.ok THEN Result("error")
        ELSE IF \/ "name" \notin parsed.obj.has \/ parsed.obj.name = ""
                \/ "options" \notin parsed.obj.has
             THEN Result("error")
        ELSE Document(data)

\* getChannelInfo that takes a document without the required fields for a
\* missing one.
readChannelInfo_Lenient(data) ==
    LET parsed == JSONparse(data)
    IN  IF data.kind = "absent" THEN Result("null")
        ELSE IF data.kind = "empty" THEN Result("error")
        ELSE IF ~parsed.ok THEN Result("error")
        ELSE IF \/ "id" \notin parsed.obj.has \/ parsed.obj.id = ""
                \/ "name" \notin parsed.obj.has \/ parsed.obj.name = ""
                \/ "messages" \notin parsed.obj.has
             THEN Result("null")
        ELSE Document(data)

\* getChannelInfo once readFile has returned or failed.
readChannelInfo(data) ==
    LET parsed == JSONparse(data)
    IN  IF data.kind = "absent" THEN Result("null")
        ELSE IF data.kind = "empty" THEN Result("error")
        ELSE IF ~parsed.ok THEN Result("error")
        ELSE IF \/ "id" \notin parsed.obj.has \/ parsed.obj.id = ""
                \/ "name" \notin parsed.obj.has \/ parsed.obj.name = ""
                \/ "messages" \notin parsed.obj.has
             THEN Result("error")
        ELSE Document(data)

\* A read call; it takes no lock, and the file is read in one step.
Read(p, name, f, result) ==
    /\ ~crashed
    /\ pc[p] = "idle"
    /\ op' = [op EXCEPT ![p] = [NoOp EXCEPT !.name = name, !.file = f]]
    /\ ret' = [ret EXCEPT ![p] = [result EXCEPT !.data = fs[f]]]
    /\ pc' = [pc EXCEPT ![p] = "done"]
    /\ UNCHANGED <<fs, tmp, mutex, callOrder, obj, fs0, crashed, outsideStore>>

GetUserConfig(p) == Read(p, "getUserConfig", cfg, readConfig(fs[cfg]))

GetServerConfig(p) == Read(p, "getServerConfig", cfg, readConfig(fs[cfg]))

GetChannelInfo(p) ==
    \E f \in {hist, ctx} : Read(p, "getChannelInfo", f, readChannelInfo(fs[f]))

\* The histories handed to the save calls.
SavedHistories == {<<>>, <<Msg("user", 1)>>}

\* saveChannelInfo(channelId, channel, username, messages), lines 176 to 185.
SaveChannelInfo(p) ==
    /\ ~crashed
    /\ pc[p] = "idle"
    /\ \E messages \in SavedHistories :
          /\ op' = [op EXCEPT ![p] = [NoOp EXCEPT !.name = "saveChannelInfo",
                                                  !.file = hist, !.messages = messages]]
          /\ obj' = [obj EXCEPT ![p] = channelInfo("chan", "general", "user", messages)]
    /\ WithLock(p, "chat", hist, "saveChannelInfo")
    /\ UNCHANGED <<fs, tmp, ret, fs0, crashed, outsideStore>>

\* saveChannelInfo(channelId, channel, "config", messages): the history of
\* the user whose username is "config".
SaveChannelInfoOfConfig(p) ==
    /\ ~crashed
    /\ pc[p] = "idle"
    /\ \E messages \in SavedHistories :
          /\ op' = [op EXCEPT ![p] = [NoOp EXCEPT !.name = "saveChannelInfo",
                                                  !.file = HistoryFileOfConfig,
                                                  !.messages = messages]]
          /\ obj' = [obj EXCEPT ![p] = channelInfo("chan", "general", "config", messages)]
    /\ WithLock(p, "chat", HistoryFileOfConfig, "saveChannelInfo")
    /\ UNCHANGED <<fs, tmp, ret, fs0, crashed, outsideStore>>

\* saveChannelContext(channelId, channel, messages), lines 129 to 137.
SaveChannelContext(p) ==
    /\ ~crashed
    /\ pc[p] = "idle"
    /\ \E messages \in SavedHistories :
          /\ op' = [op EXCEPT ![p] = [NoOp EXCEPT !.name = "saveChannelContext",
                                                  !.file = ctx, !.messages = messages]]
          /\ obj' = [obj EXCEPT ![p] = channelInfo("chan", "general", "context", messages)]
    /\ WithLock(p, "chat", ctx, "saveChannelContext")
    /\ UNCHANGED <<fs, tmp, ret, fs0, crashed, outsideStore>>

\* mkdir, then writeFile(tempFile, ...) opens the temporary file.
SaveTmpOpen(p) ==
    /\ ~crashed
    /\ pc[p] = "sv_open"
    /\ tmp' = [tmp EXCEPT ![op[p].file] = EmptyText]
    /\ pc' = [pc EXCEPT ![p] = "sv_write"]
    /\ UNCHANGED <<fs, mutex, callOrder, op, obj, ret, fs0, crashed, outsideStore>>

\* writeFile(tempFile, ...) writes the text and returns.
SaveTmpWrite(p) ==
    /\ ~crashed
    /\ pc[p] = "sv_write"
    /\ tmp' = [tmp EXCEPT ![op[p].file] = JSONstringify(obj[p])]
    /\ pc' = [pc EXCEPT ![p] = "sv_rename"]
    /\ UNCHANGED <<fs, mutex, callOrder, op, obj, ret, fs0, crashed, outsideStore>>

\* rename(tempFile, fullFileName); any failure is rethrown.  The last step
\* of saveChannelInfo, saveChannelContext and clearChannelInfo.
SaveRename(p) ==
    LET f == op[p].file
    IN  /\ ~crashed
        /\ pc[p] = "sv_rename"
        /\ IF tmp[f].kind = "absent"
           THEN /\ Unlock(p, "chat", f, Result("error"))
                /\ UNCHANGED <<fs, tmp>>
           ELSE /\ fs' = [fs EXCEPT ![f] = tmp[f]]
                /\ tmp' = [tmp EXCEPT ![f] = Absent]
                /\ Unlock(p, "chat", f,
                          IF op[p].name = "clearChannelInfo" THEN Result("true")
                          ELSE Result("void"))
        /\ UNCHANGED <<callOrder, op, obj, fs0, crashed, outsideStore>>

\* clearChannelInfo, lines 75 to 89: checkChannelInfoExists (fs.access)
\* answers, and the call returns false or asks for the lock.
ClearChannelInfo(p) ==
    /\ ~crashed
    /\ pc[p] = "idle"
    /\ op' = [op EXCEPT ![p] = [NoOp EXCEPT !.name = "clearChannelInfo", !.file = hist]]
    /\ IF fs[hist].kind = "absent"
       THEN /\ pc' = [pc EXCEPT ![p] = "done"]
            /\ ret' = [ret EXCEPT ![p] = Result("false")]
            /\ UNCHANGED <<mutex, callOrder>>
       ELSE /\ WithLock(p, "chat", hist, "clearChannelInfo")
            /\ UNCHANGED ret
    /\ UNCHANGED <<fs, tmp, obj, fs0, crashed, outsideStore>>

\* clearChannelInfo, lines 91 to 103: readFile returns or fails.
ClearRead(p) ==
    LET f == op[p].file
        parsed == JSONparse(fs[f])
    IN  /\ ~crashed
        /\ pc[p] = "cl_read"
        /\ IF fs[f].kind = "absent" \/ ~parsed.ok
           THEN \* ENOENT or SyntaxError: rethrown as "Failed to clear channel history"
                /\ Unlock(p, "chat", f, Result("error"))
                /\ UNCHANGED obj
           ELSE IF "messages" \notin parsed.obj.has \/ Len(parsed.obj.messages) = 0
           THEN /\ Unlock(p, "chat", f, Result("false"))
                /\ UNCHANGED obj
           ELSE /\ obj' = [obj EXCEPT ![p] = [parsed.obj EXCEPT !.messages = <<>>]]
                /\ pc' = [pc EXCEPT ![p] = "sv_open"]
                /\ UNCHANGED <<mutex, ret>>
        /\ UNCHANGED <<fs, tmp, callOrder, op, fs0, crashed, outsideStore>>

\* unlink that reports a missing file like any other failure.
deleted_Strict(data) ==
    IF data.kind = "absent" THEN Result("error") ELSE Result("true")

\* What deleteConfig and deleteChannelInfo return once unlink has removed
\* the file or has failed with ENOENT.
deleted(data) ==
    IF data.kind = "absent" THEN Result("false") ELSE Result("true")

\* A delete call; it takes no lock, and unlink removes the file in one step.
Delete(p, name, f) ==
    /\ ~crashed
    /\ pc[p] = "idle"
    /\ op' = [op EXCEPT ![p] = [NoOp EXCEPT !.name = name, !.file = f]]
    /\ fs' = [fs EXCEPT ![f] = Absent]
    /\ ret' = [ret EXCEPT ![p] = deleted(fs[f])]
    /\ pc' = [pc EXCEPT ![p] = "done"]
    /\ racing' = IF fs[f].kind = "absent" THEN racing
                 ELSE racing \cup {r \in Procs : pc[r] \notin {"idle", "done"}
                                                  /\ op[r].file = f}
    /\ UNCHANGED <<tmp, mutex, callOrder, obj, fs0, crashed, pathVars, queueVars,
                   handlerVars, faults, limiterVars, commandVars, messageVars>>

\* deleteConfig(filename), configHandler.ts lines 237 to 253.
DeleteConfig(p) == Delete(p, "deleteConfig", cfg)

\* deleteChannelInfo(filename), chatHistoryHandler.ts lines 262 to 278.
DeleteChannelInfo(p) == \E f \in {hist, ctx} : Delete(p, "deleteChannelInfo", f)

\* The process stops: no call takes another step.
Crash ==
    /\ ~crashed
    /\ crashed' = TRUE
    /\ UNCHANGED <<fs, tmp, mutex, callOrder, pc, op, obj, ret, fs0, outsideStore>>

\* The fs call process p waits for fails with an error other than ENOENT
\* (EACCES, EIO, ...).
failing(p) ==
    /\ ~crashed
    /\ faults' = faults \cup {p}
    /\ UNCHANGED <<fs, tmp, callOrder, obj, fs0, crashed, racing, pathVars, queueVars, limiterVars, commandVars, messageVars, handlerVars>>

\* openConfig, lines 111 to 133: the failure of readFile, writeFile or
\* rename takes the else branch of the catch block and is rethrown; the
\* failure of mkdir or writeFile inside the catch block leaves it as it is.
OpenConfigFails(p) ==
    /\ pc[p] \in {"oc_read", "oc_tmp_open", "oc_tmp_write", "oc_rename",
                  "oc_create_open", "oc_create_write"}
    /\ OpenConfigEnd(p, Result("error"))
    /\ UNCHANGED op
    /\ failing(p)

\* saveChannelInfo, saveChannelContext and clearChannelInfo: the failure of
\* readFile, mkdir, writeFile or rename is caught and rethrown.
SaveFails(p) ==
    /\ pc[p] \in {"cl_read", "sv_open", "sv_write", "sv_rename"}
    /\ Unlock(p, "chat", op[p].file, Result("error"))
    /\ UNCHANGED op
    /\ failing(p)

\* getUserConfig, getServerConfig and getChannelInfo: the failure of
\* readFile is rethrown as "Failed to read ...".
ReadFails(p) ==
    /\ pc[p] = "idle"
    /\ \E call \in {[name |-> "getUserConfig", file |-> cfg],
                     [name |-> "getServerConfig", file |-> cfg],
                     [name |-> "getChannelInfo", file |-> hist]} :
          op' = [op EXCEPT ![p] = [NoOp EXCEPT !.name = call.name, !.file = call.file]]
    /\ ret' = [ret EXCEPT ![p] = Result("error")]
    /\ pc' = [pc EXCEPT ![p] = "done"]
    /\ UNCHANGED mutex
    /\ failing(p)

\* deleteConfig and deleteChannelInfo: the failure of unlink is rethrown as
\* "Failed to delete ...".
DeleteFails(p) ==
    /\ pc[p] = "idle"
    /\ \E call \in {[name |-> "deleteConfig", file |-> cfg],
                     [name |-> "deleteChannelInfo", file |-> hist]} :
          op' = [op EXCEPT ![p] = [NoOp EXCEPT !.name = call.name, !.file = call.file]]
    /\ ret' = [ret EXCEPT ![p] = Result("error")]
    /\ pc' = [pc EXCEPT ![p] = "done"]
    /\ UNCHANGED mutex
    /\ failing(p)

\* clearChannelInfo, lines 75 to 80: the failure of fs.access is caught in
\* checkChannelInfoExists (lines 61 to 63), which answers false, and
\* clearChannelInfo returns false.
ClearAccessFails(p) ==
    /\ pc[p] = "idle"
    /\ op' = [op EXCEPT ![p] = [NoOp EXCEPT !.name = "clearChannelInfo", !.file = hist]]
    /\ ret' = [ret EXCEPT ![p] = Result("false")]
    /\ pc' = [pc EXCEPT ![p] = "done"]
    /\ UNCHANGED mutex
    /\ failing(p)

\* The documents the store itself writes.
StoredConfigs ==
    {Absent, JSONstringify(createDefaultConfig("switch-model", Str(1)))}

StoredHistories ==
    {Absent, JSONstringify(channelInfo("chan", "general", "user", <<Msg("user", 0)>>))}

procsIdle ==
    /\ mutex = [m \in Managers |-> [f \in Files |-> NoMutex]]
    /\ callOrder = [m \in Managers |-> [f \in Files |-> <<>>]]
    /\ pc = [p \in Procs |-> "idle"]
    /\ op = [p \in Procs |-> NoOp]
    /\ obj = [p \in Procs |-> NoObject]
    /\ ret = [p \in Procs |-> NoResult]
    /\ crashed = FALSE
    /\ faults = {}
    /\ racing = {}
    /\ tmp = [f \in Files |-> Absent]

\* The data directory holds documents the store wrote earlier, or nothing.
InitStore ==
    /\ \E c \in StoredConfigs, h \in StoredHistories :
          fs = [f \in Files |-> IF f = cfg THEN c ELSE IF f = hist THEN h ELSE Absent]
    /\ fs0 = fs
    /\ procsIdle

\* The file that is one user's history and another's configuration is
\* absent or holds what either call has written before.
InitNames ==
    /\ \E text \in StoredConfigs \cup StoredHistories :
          fs = [f \in Files |-> IF f = HistoryFileOfConfig THEN text ELSE Absent]
    /\ fs0 = fs
    /\ procsIdle

\* The texts a file may hold when it was not the store that wrote it.
AnyTexts ==
    {Absent, EmptyText, Garbage} \cup
    {JSONstringify([NoObject EXCEPT !.has = has, !.name = name, !.id = id])
        : has \in SUBSET {"name", "options", "id", "messages"},
          name \in {"", "general"}, id \in {"", "chan"}}

InitAny ==
    /\ \E c \in AnyTexts, h \in AnyTexts :
          fs = [f \in Files |-> IF f = cfg THEN c ELSE IF f = hist THEN h ELSE Absent]
    /\ fs0 = fs
    /\ procsIdle

(***************************************************************************)
(* events/messageCreate.ts, lines 163 to 293: the handler of a message     *)
(* that mentions the bot, once the message has passed the rate limit and   *)
(* the content validation and the guild's chat is enabled.  All handlers   *)
(* are given the one Queue client.ts creates, and none waits for another.  *)
(* A store call of the handler is one step, taken when the call returns;   *)
(* the user's tag is the username.                                         *)
(***************************************************************************)
DefaultCapacity == 5

\* Keys.defaultModel
defaultModel == Str(1)

\* The message of user u and the reply to it.
UserMsg(u) == Msg("user", u)
ReplyMsg(u) == Msg("assistant", 10 + u)

\* client.ts, lines 41 and 61: the Queue is created with the default
\* capacity and the bot's name is enqueued.
startQueue == enqueue(NewQueue(DefaultCapacity), Msg("assistant", 0))

\* A whole openConfig call on a file of the given text: the text it leaves,
\* and whether it returned.
configWritten(text, key, value) ==
    IF text.kind = "absent"
    THEN [ok |-> TRUE, text |-> JSONstringify(createDefaultConfig(key, value))]
    ELSE IF ~JSONparse(text).ok THEN [ok |-> FALSE, text |-> text]
    ELSE [ok |-> TRUE,
          text |-> JSONstringify(updatedConfig(JSONparse(text).obj, key, value))]

\* The catch block, lines 281 to 293.
Caught(u) ==
    /\ msgHist' = removeLast(msgHist)
    /\ hpc' = [hpc EXCEPT ![u] = "failed"]

\* Lines 163 to 165: the handler asks for the user's configuration.
MessageCreate(u) ==
    /\ hpc[u] = "idle"
    /\ hpc' = [hpc EXCEPT ![u] = "config"]
    /\ UNCHANGED <<fs, msgHist, loaded, saving, procVars, pathVars, queueVars, limiterVars, commandVars, messageVars, contextVars>>

\* What a call returns or throws.
ValidationError == [threw |-> TRUE, value |-> Null]
Valid(value) == [threw |-> FALSE, value |-> value]

\* validateCapacity that rounds a fraction down before the range checks.
validateCapacity_Floor(input) ==
    IF input.type # "number" THEN ValidationError
    ELSE IF "what" \in DOMAIN input /\ input.what # "half" THEN ValidationError
    ELSE IF ~validCapacity(input.v) THEN ValidationError
    ELSE Valid(input)

\* validateCapacity(input): null, a value that is not a number, a number
\* that is not finite, a fraction and an integer out of range throw; any
\* other input is returned as it is.
validateCapacity(input) ==
    IF input.type = "null" THEN ValidationError
    ELSE IF input.type # "number" THEN ValidationError
    ELSE IF "what" \in DOMAIN input /\ input.what \in {"infinity", "nan"}
    THEN ValidationError
    ELSE IF "what" \in DOMAIN input THEN ValidationError
    ELSE IF ~validCapacity(input.v) THEN ValidationError
    ELSE Valid(input)

\* The numbers /modify-capacity is given (getNumber returns null or a
\* double).
CapacityArgs ==
    {Null, Special(1, "half"), Special(0, "infinity"), Special(0, "nan")}
        \cup {Num(n) : n \in CapacityInputs}

\* /modify-capacity run by user u: the input is validated, then
\* openConfig(<username>-config.json, 'modify-capacity', capacity) is called;
\* a ValidationError is answered with a reply and nothing else.
ModifyCapacity(p) ==
    /\ ~crashed
    /\ pc[p] = "idle"
    /\ \E u \in Users, input \in CapacityArgs :
          LET capacity == validateCapacity(input)
          IN  IF capacity.threw
              THEN /\ op' = [op EXCEPT ![p] =
                                [NoOp EXCEPT !.name = "modify-capacity",
                                             !.file = ConfigFile(u),
                                             !.key = "modify-capacity",
                                             !.value = input]]
                   /\ ret' = [ret EXCEPT ![p] = Result("validation")]
                   /\ pc' = [pc EXCEPT ![p] = "done"]
                   /\ UNCHANGED <<mutex, callOrder>>
              ELSE /\ op' = [op EXCEPT ![p] =
                                [NoOp EXCEPT !.name = "openConfig",
                                             !.file = ConfigFile(u),
                                             !.key = "modify-capacity",
                                             !.value = capacity.value]]
                   /\ WithLock(p, "config", ConfigFile(u), "openConfig")
                   /\ UNCHANGED ret
    /\ UNCHANGED <<fs, tmp, obj, fs0, crashed, outsideStore>>

\* msgHist.capacity after lines 179 to 189.
capacitySet(queue, options) ==
    IF /\ hasOption(options, "modify-capacity")
       /\ optionValue(options, "modify-capacity").type = "number"
       /\ ~validateCapacity(optionValue(options, "modify-capacity")).threw
    THEN [queue EXCEPT !.capacity =
             validateCapacity(optionValue(options, "modify-capacity")).value.v]
    ELSE queue

\* getUserConfig returns (lines 165 to 207), the first time or after the
\* default configuration was written.
UserConfigRead(u) ==
    LET userConfig == readConfig(fs[ConfigFile(u)])
        options == userConfig.data.obj.options
    IN  /\ hpc[u] \in {"config", "config2"}
        /\ IF userConfig.kind = "error" \/ (userConfig.kind = "null" /\ hpc[u] = "config2")
           THEN Caught(u)
           ELSE IF userConfig.kind = "null"
           THEN /\ hpc' = [hpc EXCEPT ![u] = "config_create"]
                /\ UNCHANGED msgHist
           ELSE /\ msgHist' = capacitySet(msgHist, options)
                /\ hpc' = [hpc EXCEPT ![u] =
                              IF /\ hasOption(options, "switch-model")
                                 /\ optionValue(options, "switch-model").type = "string"
                              THEN "history" ELSE "done"]
        /\ UNCHANGED <<fs, loaded, saving, procVars, pathVars, queueVars, limiterVars, commandVars, messageVars, contextVars>>

\* openConfig(<username>-config.json, 'switch-model', defaultModel) returns
\* (line 170).
UserConfigCreated(u) ==
    LET written == configWritten(fs[ConfigFile(u)], "switch-model", defaultModel)
    IN  /\ hpc[u] = "config_create"
        /\ fs' = [fs EXCEPT ![ConfigFile(u)] = written.text]
        /\ IF written.ok
           THEN hpc' = [hpc EXCEPT ![u] = "config2"] /\ UNCHANGED msgHist
           ELSE Caught(u)
        /\ UNCHANGED <<loaded, saving, procVars, pathVars, queueVars, limiterVars, commandVars, messageVars, contextVars>>

\* getChannelInfo returns (lines 207 to 252), the first time or after the
\* empty history was saved: the history goes into the queue, then the
\* user's message, and the backend is queried.
HistoryRead(u) ==
    LET channelInfoRead == readChannelInfo(fs[HistoryFile(u)])
        chatMessages == channelInfoRead.data.obj.messages
        set == setQueue(msgHist, chatMessages)
    IN  /\ hpc[u] \in {"history", "history2"}
        /\ IF \/ channelInfoRead.kind = "error"
              \/ (channelInfoRead.kind = "null" /\ hpc[u] = "history2")
           THEN Caught(u) /\ UNCHANGED loaded
           ELSE IF channelInfoRead.kind = "null"
           THEN /\ hpc' = [hpc EXCEPT ![u] = "history_create"]
                /\ UNCHANGED <<msgHist, loaded>>
           ELSE IF ~set.ok
           THEN Caught(u) /\ UNCHANGED loaded
           ELSE /\ msgHist' = enqueue(evicted(set.queue), UserMsg(u))
                /\ loaded' = [loaded EXCEPT ![u] = chatMessages]
                /\ hpc' = [hpc EXCEPT ![u] = "query"]
        /\ UNCHANGED <<fs, saving, procVars, pathVars, queueVars, limiterVars, commandVars, messageVars, contextVars>>

\* saveChannelInfo(channelId, channel, tag, []) returns (lines 211 to 216).
HistoryCreated(u) ==
    /\ hpc[u] = "history_create"
    /\ fs' = [fs EXCEPT ![SavedHistoryFile(authorTag[u])] =
                 JSONstringify(channelInfo("chan", "general", "user", <<>>))]
    /\ hpc' = [hpc EXCEPT ![u] = "history2"]
    /\ UNCHANGED <<msgHist, loaded, saving, procVars, pathVars, queueVars, limiterVars, commandVars, messageVars, contextVars>>

\* A handler that saves the queue, the user's message included, before it
\* looks at the response.
Replied_SavesQuery(u) ==
    /\ hpc[u] = "query"
    /\ fs' = [fs EXCEPT ![SavedHistoryFile(authorTag[u])] =
                 JSONstringify(channelInfo("chan", "general", "user", getItems(msgHist)))]
    /\ msgHist' = removeLast(msgHist)
    /\ hpc' = [hpc EXCEPT ![u] = "done"]
    /\ UNCHANGED <<loaded, saving, procVars, pathVars, queueVars, limiterVars,
                   commandVars, messageVars, contextVars>>

\* normalMessage returns or throws (lines 247 to 279): what it throws (the
\* rejection of channel.send or of sentMessage.edit) is caught; with an
\* empty response the user's message is taken back; otherwise the reply is
\* enqueued and the items of the queue are handed to saveChannelInfo.
Replied(u) ==
    /\ hpc[u] = "query"
    /\ \E outcome \in {"empty", "reply", "throw"} :
          IF outcome = "throw"
          THEN Caught(u) /\ UNCHANGED saving
          ELSE IF outcome = "empty"
          THEN /\ msgHist' = removeLast(msgHist)
               /\ hpc' = [hpc EXCEPT ![u] = "done"]
               /\ UNCHANGED saving
          ELSE /\ msgHist' = enqueue(evicted(msgHist), ReplyMsg(u))
               /\ saving' = [saving EXCEPT ![u] = getItems(msgHist')]
               /\ hpc' = [hpc EXCEPT ![u] = "save"]
    /\ UNCHANGED <<fs, loaded, procVars, pathVars, queueVars, limiterVars, commandVars, messageVars, contextVars>>

\* saveChannelInfo(channelId, channel, tag, items) returns (line 279).
HistorySaved(u) ==
    /\ hpc[u] = "save"
    /\ fs' = [fs EXCEPT ![SavedHistoryFile(authorTag[u])] =
                 JSONstringify(channelInfo("chan", "general", "user", saving[u]))]
    /\ hpc' = [hpc EXCEPT ![u] = "saved"]
    /\ UNCHANGED <<msgHist, loaded, saving, procVars, pathVars, queueVars, limiterVars, commandVars, messageVars, contextVars>>

\* Lines 32 to 79, for a message without attachment: the channel's context
\* is read, the message is added to it through the channel queue, and the
\* items of the queue are handed to saveChannelContext.  getChannelInfo
\* returns, the first time or after the empty context was saved; whatever
\* is thrown is logged (line 76) and the handler goes on to the mention.
ContextRead(u) ==
    LET channelInfoRead == readChannelInfo(fs[ContextFile])
        channelContextHistory ==
            IF channelInfoRead.kind = "null" THEN <<>>
            ELSE channelInfoRead.data.obj.messages
        set == setQueue(chanHist, channelContextHistory)
    IN  /\ hpc[u] \in {"context", "context2"}
        /\ IF channelInfoRead.kind = "error"
           THEN /\ hpc' = [hpc EXCEPT ![u] = "idle"]
                /\ UNCHANGED contextVars
           ELSE IF channelInfoRead.kind = "null" /\ hpc[u] = "context"
           THEN /\ hpc' = [hpc EXCEPT ![u] = "context_create"]
                /\ UNCHANGED contextVars
           ELSE IF ~set.ok
           THEN /\ hpc' = [hpc EXCEPT ![u] = "idle"]
                /\ UNCHANGED contextVars
           ELSE /\ chanHist' = enqueue(evicted(set.queue), UserMsg(u))
                /\ ctxSaving' = [ctxSaving EXCEPT ![u] = getItems(chanHist')]
                /\ hpc' = [hpc EXCEPT ![u] = "context_save"]
        /\ UNCHANGED <<fs, msgHist, loaded, saving, procVars, pathVars, queueVars, limiterVars, commandVars, messageVars>>

\* saveChannelContext(channelId, channel, []) returns (line 38).
ContextCreated(u) ==
    /\ hpc[u] = "context_create"
    /\ fs' = [fs EXCEPT ![ContextFile] =
                 JSONstringify(channelInfo("chan", "general", "context", <<>>))]
    /\ hpc' = [hpc EXCEPT ![u] = "context2"]
    /\ UNCHANGED <<msgHist, loaded, saving, procVars, pathVars, queueVars, limiterVars, commandVars, messageVars, contextVars>>

\* saveChannelContext(channelId, channel, items) returns (line 74); the
\* handler reaches the mention check of line 82.
ContextSaved(u) ==
    /\ hpc[u] = "context_save"
    /\ fs' = [fs EXCEPT ![ContextFile] =
                 JSONstringify(channelInfo("chan", "general", "context", ctxSaving[u]))]
    /\ hpc' = [hpc EXCEPT ![u] = "idle"]
    /\ UNCHANGED <<msgHist, loaded, saving, procVars, pathVars, queueVars, limiterVars, commandVars, messageVars, contextVars>>

\* if (!serverConfig.options['toggle-chat']) that never finds chat disabled.
chatEnabled_Always(options) == TRUE

\* Line 158: whether chat is enabled in the server's options.
chatEnabled(options) ==
    /\ hasOption(options, "toggle-chat")
    /\ optionValue(options, "toggle-chat") \notin {Bool(0), Num(0), Null}

\* getServerConfig returns (lines 144 to 161), the first time or after the
\* default configuration was written.
ServerConfigRead(u) ==
    LET serverConfig == readConfig(fs[ServerConfigFile])
    IN  /\ hpc[u] \in {"server", "server2"}
        /\ IF serverConfig.kind = "error" \/ (serverConfig.kind = "null" /\ hpc[u] = "server2")
           THEN Caught(u)
           ELSE /\ hpc' = [hpc EXCEPT ![u] =
                              IF serverConfig.kind = "null" THEN "server_create"
                              ELSE IF chatEnabled(serverConfig.data.obj.options)
                              THEN "config" ELSE "disabled"]
                /\ UNCHANGED msgHist
        /\ UNCHANGED <<fs, loaded, saving, procVars, pathVars, queueVars, limiterVars,
                       commandVars, contextVars, mentions, authorTag>>

\* openConfig(<guildId>-config.json, 'toggle-chat', true) returns (line 149).
ServerConfigCreated(u) ==
    LET written == configWritten(fs[ServerConfigFile], "toggle-chat", Bool(1))
    IN  /\ hpc[u] = "server_create"
        /\ fs' = [fs EXCEPT ![ServerConfigFile] = written.text]
        /\ IF written.ok
           THEN hpc' = [hpc EXCEPT ![u] = "server2"] /\ UNCHANGED msgHist
           ELSE Caught(u)
        /\ UNCHANGED <<loaded, saving, procVars, pathVars, queueVars, limiterVars,
                       commandVars, contextVars, mentions, authorTag>>

\* The server configurations the toggle-chat command leaves behind.
ServerConfigs ==
    {Absent} \cup
    {JSONstringify(createDefaultConfig("toggle-chat", Bool(b))) : b \in {0, 1}}

\* Messages that mention the bot or not arrive in a data directory that
\* holds at most the server's configuration.
InitGate ==
    /\ mentions \in [Users -> BOOLEAN]
    /\ authorTag = [u \in Users |-> username(u)]
    /\ \E c \in ServerConfigs :
          fs = [f \in Files |-> IF f = ServerConfigFile THEN c ELSE Absent]
    /\ fs0 = fs
    /\ procsIdle
    /\ msgHist = startQueue
    /\ hpc = [u \in Users |-> "context"]
    /\ loaded = [u \in Users |-> <<>>]
    /\ saving = [u \in Users |-> <<>>]
    /\ chanHist = NewQueue(DefaultCapacity)
    /\ ctxSaving = [u \in Users |-> <<>>]

IdleMessages ==
    /\ mentions = [u \in Users |-> TRUE]
    /\ authorTag = [u \in Users |-> username(u)]

IdleHandlers ==
    /\ msgHist = startQueue
    /\ hpc = [u \in Users |-> "idle"]
    /\ loaded = [u \in Users |-> <<>>]
    /\ saving = [u \in Users |-> <<>>]
    /\ chanHist = NewQueue(DefaultCapacity)
    /\ ctxSaving = [u \in Users |-> <<>>]

\* The configurations the commands leave behind.
UserConfigs ==
    {Absent,
     JSONstringify(createDefaultConfig("switch-model", Str(1))),
     JSONstringify(updatedConfig(createDefaultConfig("switch-model", Str(1)),
                                 "modify-capacity", Num(2)))}

\* Every user has a configuration or none and a history or none.
InitHandler ==
    /\ \E c \in [Users -> UserConfigs], h \in [Users -> StoredHistories] :
          fs = [f \in Files |->
                   IF \E u \in Users : f = ConfigFile(u)
                   THEN c[CHOOSE u \in Users : f = ConfigFile(u)]
                   ELSE IF \E u \in Users : f = HistoryFile(u)
                   THEN h[CHOOSE u \in Users : f = HistoryFile(u)]
                   ELSE Absent]
    /\ fs0 = fs
    /\ procsIdle
    /\ IdleHandlers

\* Capacities a configuration file may hold, written by the command or not.
StoredCapacities ==
    {Num(0), Num(MaxCapacity), Num(MaxAllowedCapacity + 1), Special(2, "half"), Str(1)}

CapacityConfigs ==
    {Absent} \cup
    {JSONstringify(updatedConfig(createDefaultConfig("switch-model", Str(1)),
                                 "modify-capacity", value)) : value \in StoredCapacities}

\* Every user has the same configuration, or none, and no history.
InitCapacity ==
    /\ \E c \in CapacityConfigs :
          fs = [f \in Files |->
                   IF \E u \in Users : f = ConfigFile(u) THEN c ELSE Absent]
    /\ fs0 = fs
    /\ procsIdle
    /\ IdleHandlers

\* A message of an earlier conversation.
OldMsg(role) == Msg(role, 0)

\* The messages arrive in an empty data directory, or in one where user 1
\* has set a capacity of 2 and has a history of one message, the other
\* users have the default configuration and a history of three, and the
\* context holds four messages.
InitContext ==
    /\ \E empty \in BOOLEAN :
          fs = [f \in Files |->
                  IF empty THEN Absent
                  ELSE IF f = ConfigFile(1)
                  THEN JSONstringify(updatedConfig(createDefaultConfig("switch-model", Str(1)),
                                                   "modify-capacity", Num(2)))
                  ELSE IF f = HistoryFile(1)
                  THEN JSONstringify(channelInfo("chan", "general", "user", <<OldMsg("user")>>))
                  ELSE IF f = ContextFile
                  THEN JSONstringify(channelInfo("chan", "general", "context",
                                                 [i \in 1..(DefaultCapacity - 1) |-> OldMsg("user")]))
                  ELSE IF \E u \in Users : f = ConfigFile(u)
                  THEN JSONstringify(createDefaultConfig("switch-model", Str(1)))
                  ELSE JSONstringify(channelInfo("chan", "general", "user",
                                                 <<OldMsg("user"), OldMsg("assistant"), OldMsg("user")>>))]
    /\ fs0 = fs
    /\ procsIdle
    /\ msgHist = startQueue
    /\ hpc = [u \in Users |-> "context"]
    /\ loaded = [u \in Users |-> <<>>]
    /\ saving = [u \in Users |-> <<>>]
    /\ chanHist = NewQueue(DefaultCapacity)
    /\ ctxSaving = [u \in Users |-> <<>>]

(***************************************************************************)
(* The rate limiter (utils/rateLimiter.ts).                                *)
(*                                                                         *)
(* Time is counted in units of 30 seconds from the moment the limiter is   *)
(* made; the clock does not run backwards.  The cleanup interval of 60000  *)
(* ms is two units, and the cooldown is a whole number of units.           *)
(***************************************************************************)
CleanupInterval == 2

\* The users who send requests (message.author.id).
UserIds == {"user1", "user2"}

\* The clock is followed for Rounds cleanup intervals.
MaxTime == Rounds * CleanupInterval

\* What cooldowns.get(userId) returns when the map has no such key.
NoCooldown == 0

Max0(n) == IF n < 0 THEN 0 ELSE n

\* cooldowns.get(userId)
get(cds, userId) == IF userId \in DOMAIN cds THEN cds[userId] ELSE NoCooldown

\* cooldowns.set(userId, expires)
set(cds, userId, expires) ==
    [id \in DOMAIN cds \cup {userId} |-> IF id = userId THEN expires ELSE cds[id]]

\* cooldowns.delete(userId) for every userId of ids
delete(cds, ids) == [id \in DOMAIN cds \ ids |-> cds[id]]

\* new Collection()
NoCooldowns == delete(<<>>, {})

\* isRateLimited that still limits at the instant the cooldown expires.
isRateLimited_Late(cds, userId, t, cooldown) ==
    LET cooldownExpires == get(cds, userId)
    IN  IF cooldownExpires # NoCooldown /\ t <= cooldownExpires
        THEN [limited |-> TRUE, cooldowns |-> cds]
        ELSE [limited |-> FALSE, cooldowns |-> set(cds, userId, t + cooldown)]

\* isRateLimited that keeps one expiry for all users.
isRateLimited_Shared(cds, userId, t, cooldown) ==
    LET cooldownExpires == get(cds, userId)
    IN  IF cooldownExpires # NoCooldown /\ t < cooldownExpires
        THEN [limited |-> TRUE, cooldowns |-> cds]
        ELSE [limited |-> FALSE,
              cooldowns |-> [id \in DOMAIN cds \cup {userId} |-> t + cooldown]]

\* isRateLimited(userId) at time t: what it returns and the map it leaves.
isRateLimited(cds, userId, t, cooldown) ==
    LET cooldownExpires == get(cds, userId)
    IN  IF cooldownExpires # NoCooldown /\ t < cooldownExpires
        THEN [limited |-> TRUE, cooldowns |-> cds]
        ELSE [limited |-> FALSE, cooldowns |-> set(cds, userId, t + cooldown)]

\* getRemainingTime(userId) at time t.
getRemainingTime(cds, userId, t) ==
    IF get(cds, userId) = NoCooldown THEN 0 ELSE Max0(get(cds, userId) - t)

\* cleanup that removes every entry.
cleanup_All(cds, t) == delete(cds, DOMAIN cds)

\* cleanup() at time t: the entries that have expired are deleted.
cleanup(cds, t) == delete(cds, {id \in DOMAIN cds : t >= cds[id]})

\* getStats().activeCooldowns
activeCooldowns(cds) == Cardinality(DOMAIN cds)

NoLimiterCall == [op |-> "none", user |-> "", limited |-> FALSE, number |-> 0]
LimiterCall(name, u, limited, number) ==
    [op |-> name, user |-> u, limited |-> limited, number |-> number]

NeverAllowed == [at |-> 0, ever |-> FALSE, cleared |-> FALSE]

\* When isRateLimited(userId) last returned false.
lastAllowed(userId) ==
    IF userId \in DOMAIN allowed THEN allowed[userId] ELSE NeverAllowed

\* The limiter after isRateLimited(userId) was called.
limiterAsked(userId) ==
    LET call == isRateLimited(cooldowns, userId, now, cooldownMs)
    IN  /\ cooldowns' = call.cooldowns
        /\ rlret' = LimiterCall("isRateLimited", userId, call.limited, 0)
        /\ allowed' = IF call.limited THEN allowed
                      ELSE set(allowed, userId,
                               [at |-> now, ever |-> TRUE, cleared |-> FALSE])

\* new RateLimiter(cooldownSeconds), for any cooldown the constructor takes.
InitLimiter ==
    /\ now = 0
    /\ cooldowns = NoCooldowns
    /\ cooldownMs \in 1..MaxCooldown
    /\ cleanupDue = CleanupInterval
    /\ allowed = NoCooldowns
    /\ rlret = NoLimiterCall

IdleLimiter ==
    /\ now = 0
    /\ cooldowns = NoCooldowns
    /\ cooldownMs = 1
    /\ cleanupDue = CleanupInterval
    /\ allowed = NoCooldowns
    /\ rlret = NoLimiterCall

\* The clock advances.
Tick ==
    /\ now < MaxTime
    /\ now' = now + 1
    /\ UNCHANGED <<cooldowns, cooldownMs, cleanupDue, allowed, rlret, outsideLimiter>>

\* A request of user u; requests stop arriving one cooldown before the
\* clock is no longer followed.
IsRateLimited(u) ==
    /\ cleanupDue # 0
    /\ now + cooldownMs <= MaxTime
    /\ limiterAsked(u)
    /\ UNCHANGED <<now, cooldownMs, cleanupDue, outsideLimiter>>

GetRemainingTime(u) ==
    /\ cleanupDue # 0
    /\ rlret' = LimiterCall("getRemainingTime", u, FALSE,
                            getRemainingTime(cooldowns, u, now))
    /\ UNCHANGED <<now, cooldowns, cooldownMs, cleanupDue, allowed, outsideLimiter>>

ClearCooldown(u) ==
    /\ cleanupDue # 0
    /\ cooldowns' = delete(cooldowns, {u})
    /\ allowed' = [id \in DOMAIN allowed |->
                       IF id = u THEN [allowed[id] EXCEPT !.cleared = TRUE]
                       ELSE allowed[id]]
    /\ rlret' = LimiterCall("clearCooldown", u, FALSE, 0)
    /\ UNCHANGED <<now, cooldownMs, cleanupDue, outsideLimiter>>

ClearAll ==
    /\ cleanupDue # 0
    /\ cooldowns' = NoCooldowns
    /\ allowed' = [id \in DOMAIN allowed |-> [allowed[id] EXCEPT !.cleared = TRUE]]
    /\ rlret' = LimiterCall("clearAll", "", FALSE, 0)
    /\ UNCHANGED <<now, cooldownMs, cleanupDue, outsideLimiter>>

\* The interval set in the constructor fires, at its time or later, and
\* runs cleanup().
Cleanup ==
    /\ cleanupDue # 0
    /\ now >= cleanupDue
    /\ cooldowns' = cleanup(cooldowns, now)
    /\ cleanupDue' = cleanupDue + CleanupInterval
    /\ rlret' = LimiterCall("cleanup", "", FALSE,
                            activeCooldowns(cooldowns) - activeCooldowns(cleanup(cooldowns, now)))
    /\ UNCHANGED <<now, cooldownMs, allowed, outsideLimiter>>

\* destroy(), called at shutdown once the listeners are removed: the
\* interval is cleared and the map emptied.
Destroy ==
    /\ cleanupDue # 0
    /\ cleanupDue' = 0
    /\ cooldowns' = NoCooldowns
    /\ allowed' = [id \in DOMAIN allowed |-> [allowed[id] EXCEPT !.cleared = TRUE]]
    /\ rlret' = LimiterCall("destroy", "", FALSE, 0)
    /\ UNCHANGED <<now, cooldownMs, outsideLimiter>>

\* Lines 82 to 141, which run without a pause once the context is dealt
\* with: the mention check, the rate limit, the validation of the content
\* and the guild check; then getServerConfig is called.
Gate(u) ==
    /\ hpc[u] = "idle"
    /\ IF ~mentions[u]
       THEN /\ hpc' = [hpc EXCEPT ![u] = "ignored"]
            /\ UNCHANGED <<cooldowns, allowed, rlret>>
       ELSE /\ limiterAsked(username(u))
            /\ IF isRateLimited(cooldowns, username(u), now, cooldownMs).limited
               THEN hpc' = [hpc EXCEPT ![u] = "limited"]
               ELSE \E outcome \in {"invalid", "dm", "server"} :
                        hpc' = [hpc EXCEPT ![u] = outcome]
    /\ UNCHANGED <<fs, msgHist, loaded, saving, procVars, pathVars, queueVars,
                   commandVars, contextVars, mentions, authorTag, now, cooldownMs, cleanupDue>>

(***************************************************************************)
(* The administrator commands (commands/deleteModel.ts, pullModel.ts,      *)
(* disable.ts, shutoff.ts) and requireAdmin (utils/commandHelpers.ts).     *)
(*                                                                         *)
(* Each process runs one interaction.  Its replies are the messages the    *)
(* command has sent with reply, editReply or safeReply.                    *)
(***************************************************************************)
AdminCommands == {"delete-model", "pull-model", "toggle-chat", "shutoff"}

\* interaction.memberPermissions: null outside a server, else with or
\* without Administrator.
Permissions == {"dm", "member", "admin"}

\* The model of the Ollama library that the commands name.
ModelNames == {"llama"}

NoInteraction ==
    [command |-> "none", permission |-> "admin", step |-> "none",
     model |-> "", replies |-> <<>>]

\* requireAdmin that lets everybody through.
requireAdmin_Open(permission) == [ok |-> TRUE, reply |-> ""]

\* requireAdmin(interaction): whether the command may go on, and the reply
\* sent when it may not.
requireAdmin(permission) ==
    IF permission = "dm" THEN [ok |-> FALSE, reply |-> "Server Only Command"]
    ELSE IF permission # "admin" THEN [ok |-> FALSE, reply |-> "PERMISSION_DENIED"]
    ELSE [ok |-> TRUE, reply |-> ""]

\* The command ends with one more reply.
ended(i, reply) == [i EXCEPT !.step = "done", !.replies = Append(@, reply)]

IdleCommands ==
    /\ interaction = [p \in Procs |-> NoInteraction]
    /\ models = {}
    /\ clientUp = TRUE

InitCommands ==
    /\ interaction = [p \in Procs |-> NoInteraction]
    /\ models \in SUBSET ModelNames
    /\ clientUp = TRUE

\* interactionCreate: somebody runs an administrator command.
Interact(p) ==
    /\ clientUp
    /\ interaction[p].step = "none"
    /\ \E command \in AdminCommands, permission \in Permissions, model \in ModelNames :
          interaction' = [interaction EXCEPT ![p] =
              [NoInteraction EXCEPT !.command = command, !.permission = permission,
                                    !.model = IF command \in {"delete-model", "pull-model"}
                                              THEN model ELSE "",
                                    !.step = "admin"]]
    /\ UNCHANGED <<models, clientUp, outsideCommands>>

\* The first statement of every run: if (!await requireAdmin(interaction))
\* return.
RequireAdmin(p) ==
    LET admin == requireAdmin(interaction[p].permission)
    IN  /\ interaction[p].step = "admin"
        /\ interaction' = [interaction EXCEPT ![p] =
              IF admin.ok THEN [@ EXCEPT !.step = "run"] ELSE ended(@, admin.reply)]
        /\ UNCHANGED <<models, clientUp, outsideCommands>>

\* What stops delete-model and pull-model before the library is changed:
\* the channel type, the model name, or Ollama not answering.
EarlyReplies == {"wrong channel", "Validation Error", "OLLAMA_OFFLINE"}

\* delete-model, lines 30 to 69: the checks, then modelExists.
DeleteModelRun(p) ==
    /\ interaction[p].step = "run"
    /\ interaction[p].command = "delete-model"
    /\ \/ \E reply \in EarlyReplies :
             interaction' = [interaction EXCEPT ![p] = ended(@, reply)]
       \/ interaction' = [interaction EXCEPT ![p] =
             IF @.model \in models THEN [@ EXCEPT !.step = "call"]
             ELSE ended(@, "could not delete")]
    /\ UNCHANGED <<models, clientUp, outsideCommands>>

\* delete-model, lines 72 to 80: ollama.delete returns, or throws when the
\* model is no longer there.
DeleteModelCall(p) ==
    /\ interaction[p].step = "call"
    /\ interaction[p].command = "delete-model"
    /\ models' = models \ {interaction[p].model}
    /\ interaction' = [interaction EXCEPT ![p] =
          ended(@, IF @.model \in models THEN "removed" ELSE "Unable to delete model")]
    /\ UNCHANGED <<clientUp, outsideCommands>>

\* pull-model, lines 30 to 74: the checks, then modelExists.
PullModelRun(p) ==
    /\ interaction[p].step = "run"
    /\ interaction[p].command = "pull-model"
    /\ \/ \E reply \in EarlyReplies :
             interaction' = [interaction EXCEPT ![p] = ended(@, reply)]
       \/ interaction' = [interaction EXCEPT ![p] =
             IF @.model \in models THEN ended(@, "already available")
             ELSE [@ EXCEPT !.step = "call", !.replies = Append(@, "please wait")]]
    /\ UNCHANGED <<models, clientUp, outsideCommands>>

\* pull-model, lines 77 to 97: ollama.pull returns or throws.
PullModelCall(p) ==
    /\ interaction[p].step = "call"
    /\ interaction[p].command = "pull-model"
    /\ \/ /\ models' = models \cup {interaction[p].model}
          /\ interaction' = [interaction EXCEPT ![p] = ended(@, "added")]
       \/ /\ models' = models
          /\ interaction' = [interaction EXCEPT ![p] = ended(@, "could not retrieve")]
    /\ UNCHANGED <<clientUp, outsideCommands>>

\* toggle-chat: the channel check, then openConfig(<guildId>-config.json,
\* 'toggle-chat', enabled).
ToggleChatRun(p) ==
    /\ ~crashed
    /\ interaction[p].step = "run"
    /\ interaction[p].command = "toggle-chat"
    /\ pc[p] = "idle"
    /\ \/ /\ interaction' = [interaction EXCEPT ![p] = ended(@, "wrong channel")]
          /\ UNCHANGED <<mutex, callOrder, pc, op>>
       \/ /\ interaction' = [interaction EXCEPT ![p].step = "call"]
          /\ \E enabled \in {Bool(0), Bool(1)} :
                op' = [op EXCEPT ![p] = [NoOp EXCEPT !.name = "openConfig",
                                                     !.file = ServerConfigFile,
                                                     !.key = "toggle-chat",
                                                     !.value = enabled]]
          /\ WithLock(p, "config", ServerConfigFile, "openConfig")
    /\ UNCHANGED <<fs, tmp, obj, ret, fs0, crashed, faults, racing, models, clientUp,
                   pathVars, queueVars, handlerVars, limiterVars, messageVars>>

\* toggle-chat: openConfig has returned or thrown, and the reply is sent.
ToggleChatDone(p) ==
    /\ interaction[p].step = "call"
    /\ interaction[p].command = "toggle-chat"
    /\ pc[p] = "done"
    /\ interaction' = [interaction EXCEPT ![p] =
          ended(@, IF ret[p].kind = "error" THEN "Failed to toggle chat"
                   ELSE "chat features are now set")]
    /\ UNCHANGED <<models, clientUp, outsideCommands>>

\* shutoff: the channel check, the reply, then client.destroy().
ShutoffRun(p) ==
    /\ interaction[p].step = "run"
    /\ interaction[p].command = "shutoff"
    /\ \/ /\ interaction' = [interaction EXCEPT ![p] = ended(@, "wrong channel")]
          /\ UNCHANGED clientUp
       \/ /\ interaction' = [interaction EXCEPT ![p] = ended(@, "shutting down")]
          /\ clientUp' = FALSE
    /\ UNCHANGED <<models, outsideCommands>>

(***************************************************************************)
(* Specifications.                                                         *)
(***************************************************************************)
IdlePath == filename = <<>> /\ safeName = NotCalled /\ resolved = NotCalled
IdleQueue == q = NewQueue(1) /\ pushed = <<>> /\ qret = NoCall
IdleStore ==
    /\ fs = [f \in Files |-> Absent]
    /\ fs0 = fs
    /\ procsIdle

\* getSafeDataPath applied to every filename up to MaxRawLen characters.
NextPath == GetSafeDataPath
InitSpecPath == InitPath /\ IdleQueue /\ IdleStore /\ IdleHandlers /\ IdleLimiter /\ IdleCommands /\ IdleMessages
SpecPath == InitSpecPath /\ [][NextPath]_vars

\* One queue under any sequence of its operations.
NextQueue == Enqueue \/ Dequeue \/ RemoveLast \/ SetQueue \/ Clear \/ SetCapacity
InitSpecQueue == InitQueue /\ IdlePath /\ IdleStore /\ IdleHandlers /\ IdleLimiter /\ IdleCommands /\ IdleMessages
SpecQueue == InitSpecQueue /\ [][NextQueue]_vars

\* Concurrent store calls, one per process, on a data directory that holds
\* only what the store wrote.
NextStore ==
    \E p \in Procs :
        \/ OpenConfig(p) \/ OpenConfigRead(p) \/ OpenConfigTmpOpen(p)
        \/ OpenConfigTmpWrite(p) \/ OpenConfigRename(p)
        \/ OpenConfigCreateOpen(p) \/ OpenConfigCreateWrite(p)
        \/ GetUserConfig(p) \/ GetServerConfig(p) \/ GetChannelInfo(p)
        \/ SaveChannelInfo(p) \/ SaveChannelContext(p)
        \/ SaveTmpOpen(p) \/ SaveTmpWrite(p) \/ SaveRename(p)
        \/ ClearChannelInfo(p) \/ ClearRead(p)
InitSpecStore == InitStore /\ IdlePath /\ IdleQueue /\ IdleHandlers /\ IdleLimiter /\ IdleCommands /\ IdleMessages
SpecStore == InitSpecStore /\ [][NextStore]_vars

\* The same, with the process stopping at any moment.
NextCrash == NextStore \/ Crash
SpecCrash == InitSpecStore /\ [][NextCrash]_vars

\* The read calls on files of any content.
NextRead ==
    \E p \in Procs : GetUserConfig(p) \/ GetServerConfig(p) \/ GetChannelInfo(p)
InitSpecRead == InitAny /\ IdlePath /\ IdleQueue /\ IdleHandlers /\ IdleLimiter /\ IdleCommands /\ IdleMessages
SpecRead == InitSpecRead /\ [][NextRead]_vars

\* Every user has a tag with or without a discriminator; all have the
\* default configuration, or none has, and all have a history, or none has.
InitTags ==
    /\ authorTag \in [Users -> UNION {tags(u) : u \in Users}]
    /\ \A u \in Users : authorTag[u] \in tags(u)
    /\ mentions = [u \in Users |-> TRUE]
    /\ \E c \in StoredConfigs, h \in StoredHistories :
          fs = [f \in Files |->
                   IF \E u \in Users : f = ConfigFile(u) THEN c
                   ELSE IF \E u \in Users : f = HistoryFile(u) THEN h
                   ELSE Absent]
    /\ fs0 = fs
    /\ procsIdle
    /\ IdleHandlers

\* The mentions of NumUsers users handled concurrently.
NextHandler ==
    \E u \in Users :
        \/ MessageCreate(u) \/ UserConfigRead(u) \/ UserConfigCreated(u)
        \/ HistoryRead(u) \/ HistoryCreated(u) \/ Replied(u) \/ HistorySaved(u)
InitSpecHandler == InitHandler /\ IdlePath /\ IdleQueue /\ IdleLimiter /\ IdleCommands /\ IdleMessages
SpecHandler == InitSpecHandler /\ [][NextHandler]_vars

\* /switch-model and the other commands that call openConfig on the first
\* user's configuration, while the users' messages arrive in an empty data
\* directory; the handler's own openConfig runs once the lock is free.
UserConfigCreatedUnlocked(u) ==
    /\ mutex["config"][ConfigFile(u)].holder = 0
    /\ UserConfigCreated(u)
NextDefaults ==
    \/ \E p \in Procs :
           \/ OpenConfig(p) \/ OpenConfigRead(p) \/ OpenConfigTmpOpen(p)
           \/ OpenConfigTmpWrite(p) \/ OpenConfigRename(p)
           \/ OpenConfigCreateOpen(p) \/ OpenConfigCreateWrite(p)
    \/ \E u \in Users :
           \/ MessageCreate(u) \/ UserConfigRead(u) \/ UserConfigCreatedUnlocked(u)
InitSpecDefaults ==
    IdleStore /\ IdlePath /\ IdleQueue /\ IdleHandlers /\ IdleLimiter /\ IdleCommands
        /\ IdleMessages
SpecDefaults == InitSpecDefaults /\ [][NextDefaults]_vars

\* The same for users with and without a discriminator.
NextTags ==
    \E u \in Users :
        \/ MessageCreate(u) \/ UserConfigRead(u) \/ UserConfigCreated(u)
        \/ HistoryRead(u) \/ HistoryCreated(u) \/ Replied(u) \/ HistorySaved(u)
InitSpecTags == InitTags /\ IdlePath /\ IdleQueue /\ IdleLimiter /\ IdleCommands
SpecTags == InitSpecTags /\ [][NextTags]_vars

\* One /modify-capacity command, and the users' messages handled one after
\* another up to the step that sets the capacity (lines 163 to 189); the
\* configurations may hold a capacity the command did not write.
ModifyCapacityAlone(p) ==
    /\ \A r \in Procs : pc[r] = "idle"
    /\ ModifyCapacity(p)

MessageCreateAlone(u) ==
    /\ \A v \in Users : hpc[v] \in {"idle", "done", "failed", "history"}
    /\ MessageCreate(u)

NextCapacity ==
    \/ \E p \in Procs :
           \/ ModifyCapacityAlone(p) \/ OpenConfigRead(p) \/ OpenConfigTmpOpen(p)
           \/ OpenConfigTmpWrite(p) \/ OpenConfigRename(p)
           \/ OpenConfigCreateOpen(p) \/ OpenConfigCreateWrite(p)
    \/ \E u \in Users :
           \/ MessageCreateAlone(u) \/ UserConfigRead(u) \/ UserConfigCreated(u)
InitSpecCapacity == InitCapacity /\ IdlePath /\ IdleQueue /\ IdleLimiter /\ IdleCommands /\ IdleMessages
SpecCapacity == InitSpecCapacity /\ [][NextCapacity]_vars

\* The store calls together with the delete calls.
NextDelete == NextStore \/ \E p \in Procs : DeleteConfig(p) \/ DeleteChannelInfo(p)
SpecDelete == InitSpecStore /\ [][NextDelete]_vars

\* The store and delete calls on a file system whose calls may fail.
NextFault ==
    \/ NextDelete
    \/ \E p \in Procs :
           \/ OpenConfigFails(p) \/ SaveFails(p) \/ ReadFails(p)
           \/ DeleteFails(p) \/ ClearAccessFails(p)
SpecFault == InitSpecStore /\ [][NextFault]_vars

\* openConfig and clearChannelInfo calls, one module each, on a
\* configuration that is missing or corrupt and a stored history, and on a
\* file system whose calls return or fail, but do return.
InitCorrupt ==
    /\ \E c \in {Absent, Garbage}, h \in StoredHistories \ {Absent} :
          fs = [f \in Files |-> IF f = cfg THEN c ELSE IF f = hist THEN h ELSE Absent]
    /\ fs0 = fs
    /\ procsIdle
FsCallReturns ==
    \E p \in Procs :
        \/ OpenConfigRead(p) \/ OpenConfigTmpOpen(p)
        \/ OpenConfigTmpWrite(p) \/ OpenConfigRename(p)
        \/ OpenConfigCreateOpen(p) \/ OpenConfigCreateWrite(p)
        \/ SaveTmpOpen(p) \/ SaveTmpWrite(p) \/ SaveRename(p) \/ ClearRead(p)
        \/ OpenConfigFails(p) \/ SaveFails(p)
NextRelease ==
    \E p \in Procs :
        \/ OpenConfig(p) \/ OpenConfigRead(p) \/ OpenConfigTmpOpen(p)
        \/ OpenConfigTmpWrite(p) \/ OpenConfigRename(p)
        \/ OpenConfigCreateOpen(p) \/ OpenConfigCreateWrite(p)
        \/ ClearChannelInfo(p) \/ ClearRead(p)
        \/ SaveTmpOpen(p) \/ SaveTmpWrite(p) \/ SaveRename(p)
        \/ OpenConfigFails(p) \/ SaveFails(p)
InitSpecRelease ==
    InitCorrupt /\ IdlePath /\ IdleQueue /\ IdleHandlers /\ IdleLimiter /\ IdleCommands
        /\ IdleMessages
SpecRelease == InitSpecRelease /\ [][NextRelease]_vars /\ WF_vars(FsCallReturns)

\* One rate limiter under any sequence of its calls while the clock runs.
NextLimiter ==
    \/ Tick \/ Cleanup \/ ClearAll \/ Destroy
    \/ \E u \in UserIds : IsRateLimited(u) \/ GetRemainingTime(u) \/ ClearCooldown(u)
InitSpecLimiter == InitLimiter /\ IdlePath /\ IdleQueue /\ IdleStore /\ IdleHandlers /\ IdleCommands /\ IdleMessages
SpecLimiter == InitSpecLimiter /\ [][NextLimiter]_vars

\* The limiter of the running bot: requests, the clock and the interval,
\* which fires as long as the process runs.
NextCleanup == Tick \/ Cleanup \/ \E u \in UserIds : IsRateLimited(u)
SpecCleanup ==
    InitSpecLimiter /\ [][NextCleanup]_vars /\ WF_vars(Tick) /\ WF_vars(Cleanup)

\* Administrator commands run by anybody, in a server or not.
NextAdmin ==
    \E p \in Procs :
        \/ Interact(p) \/ RequireAdmin(p)
        \/ DeleteModelRun(p) \/ DeleteModelCall(p)
        \/ PullModelRun(p) \/ PullModelCall(p)
        \/ ToggleChatRun(p) \/ ToggleChatDone(p) \/ ShutoffRun(p)
        \/ OpenConfigRead(p) \/ OpenConfigTmpOpen(p)
        \/ OpenConfigTmpWrite(p) \/ OpenConfigRename(p)
        \/ OpenConfigCreateOpen(p) \/ OpenConfigCreateWrite(p)
InitSpecAdmin ==
    InitCommands /\ IdlePath /\ IdleQueue /\ IdleStore /\ IdleHandlers /\ IdleLimiter
        /\ IdleMessages
SpecAdmin == InitSpecAdmin /\ [][NextAdmin]_vars

\* Messages, with or without a mention of the bot, handled from the context
\* to the saved history, at most two of them at a time.
inFlight(u) ==
    hpc[u] \notin {"context", "ignored", "limited", "invalid", "dm", "disabled",
                   "failed", "saved", "done"}
MessageArrives(u) ==
    /\ hpc[u] = "context"
    /\ \A v, w \in Users \ {u} : inFlight(v) /\ inFlight(w) => v = w
    /\ ContextRead(u)
ContextReadAgain(u) == hpc[u] = "context2" /\ ContextRead(u)
NextGate ==
    \E u \in Users :
        \/ MessageArrives(u) \/ ContextReadAgain(u)
        \/ ContextCreated(u) \/ ContextSaved(u)
        \/ Gate(u) \/ ServerConfigRead(u) \/ ServerConfigCreated(u)
        \/ UserConfigRead(u) \/ UserConfigCreated(u)
        \/ HistoryRead(u) \/ HistoryCreated(u) \/ Replied(u) \/ HistorySaved(u)
InitSpecGate == InitGate /\ IdlePath /\ IdleQueue /\ IdleLimiter /\ IdleCommands
SpecGate == InitSpecGate /\ [][NextGate]_vars

\* Calls of both store modules for users whose files have the same name.
NextNames ==
    \E p \in Procs :
        \/ OpenConfigOfDigits(p) \/ OpenConfigRead(p) \/ OpenConfigTmpOpen(p)
        \/ OpenConfigTmpWrite(p) \/ OpenConfigRename(p)
        \/ OpenConfigCreateOpen(p) \/ OpenConfigCreateWrite(p)
        \/ SaveChannelInfoOfConfig(p)
        \/ SaveTmpOpen(p) \/ SaveTmpWrite(p) \/ SaveRename(p)
InitSpecNames == InitNames /\ IdlePath /\ IdleQueue /\ IdleHandlers /\ IdleLimiter /\ IdleCommands /\ IdleMessages
SpecNames == InitSpecNames /\ [][NextNames]_vars

\* The whole handler, from the arrival of each user's message.
NextContext ==
    \E u \in Users :
        \/ ContextRead(u) \/ ContextCreated(u) \/ ContextSaved(u)
        \/ MessageCreate(u) \/ UserConfigRead(u) \/ UserConfigCreated(u)
        \/ HistoryRead(u) \/ HistoryCreated(u) \/ Replied(u) \/ HistorySaved(u)
InitSpecContext == InitContext /\ IdlePath /\ IdleQueue /\ IdleLimiter /\ IdleCommands /\ IdleMessages
SpecContext == InitSpecContext /\ [][NextContext]_vars

(***************************************************************************)
(* C1: whatever the filename, getSafeDataPath throws or returns a path     *)
(* strictly below the data directory.                                      *)
(***************************************************************************)
C1_Confined ==
    resolved.kind = "path" =>
        /\ startsWith(resolved.path, DATA_DIR \o <<sep>>)
        /\ Len(resolved.path) > Len(DATA_DIR) + 1

\* A filename with a traversal sequence for which a path was returned.
C1_Witness ==
    /\ Len(filename) >= 3
    /\ SubSeq(filename, 1, 3) = <<".", ".", "/">>
    /\ resolved.kind = "path"

(***************************************************************************)
(* C2: when no openConfig call is in progress, the configuration file      *)
(* holds what the finished openConfig calls produce when applied one at a  *)
(* time, in some order, to the document the file held at the start.        *)
(***************************************************************************)
Quiescent == \A p \in Procs : pc[p] \in {"idle", "done"}

Writers == {p \in Procs : op[p].name = "openConfig"}

\* One openConfig call run alone on a file holding text.
alone(text, key, value) ==
    IF text.kind = "absent"
    THEN JSONstringify(createDefaultConfig(key, value))
    ELSE JSONstringify(updatedConfig(JSONparse(text).obj, key, value))

RECURSIVE serially(_, _)
serially(text, order) ==
    IF order = <<>> THEN text
    ELSE serially(alone(text, op[Head(order)].key, op[Head(order)].value), Tail(order))

Orders(S) ==
    {order \in [1..Cardinality(S) -> S] : \A i, j \in DOMAIN order : i # j => order[i] # order[j]}

C2_SomeSerialOrder ==
    Quiescent => \E order \in Orders(Writers) : fs[cfg] = serially(fs0[cfg], order)

\* Two calls on the same file have both finished.
C2_Witness ==
    /\ Quiescent
    /\ Cardinality(Writers) >= 2
    /\ \E p1, p2 \in Writers : op[p1].key # op[p2].key

(***************************************************************************)
(* C3: a finished read has seen nothing (no file) or a complete document,  *)
(* never an empty or partly written file.                                  *)
(***************************************************************************)
Reads == {"getUserConfig", "getServerConfig", "getChannelInfo"}

C3_ReadsSeeCompleteDocuments ==
    \A p \in Procs :
        (pc[p] = "done" /\ op[p].name \in Reads) => ret[p].data.kind \in {"absent", "json"}

(***************************************************************************)
(* C4: the text of <key>.json changes only by the rename of a written      *)
(* <key>.json.tmp over it.                                                 *)
(***************************************************************************)
C4_OnlyRenameChangesTarget ==
    [][\A f \in Files :
          fs'[f] # fs[f] => (tmp[f].kind = "json" /\ fs'[f] = tmp[f] /\ tmp'[f] = Absent)]_vars

(***************************************************************************)
(* C5: once the process has stopped, every file is absent or holds a       *)
(* complete document.                                                      *)
(***************************************************************************)
C5_CrashLeavesCompleteDocuments ==
    crashed => \A f \in Files : fs[f].kind \in {"absent", "json"}

(***************************************************************************)
(* C6: openConfig calls enter the locked section in call order: a call     *)
(* that has started to read finds every call made before it finished.      *)
(***************************************************************************)
C6_CallOrder ==
    LET calls == callOrder["config"][cfg]
    IN  \A i, j \in DOMAIN calls :
            (i < j /\ pc[calls[j]] \notin {"idle", "wait"}) => pc[calls[i]] = "done"

\* A call that had to wait has entered after the call before it finished.
C6_Witness ==
    LET calls == callOrder["config"][cfg]
    IN  /\ Len(calls) >= 2
        /\ pc[calls[1]] = "done"
        /\ pc[calls[2]] = "oc_read"
        /\ fs[cfg] # fs0[cfg]

(***************************************************************************)
(* C7: an openConfig(f, k, v) that commits over an existing document       *)
(* leaves the name and every other option as they were and sets k to v.    *)
(***************************************************************************)
C7_SparseMerge ==
    [][\A p \in Procs :
          (pc[p] = "oc_rename" /\ pc'[p] = "done" /\ fs[cfg].kind = "json") =>
              LET old == fs[cfg].obj
                  new == fs'[cfg].obj
              IN  /\ fs'[cfg].kind = "json"
                  /\ new.name = old.name
                  /\ hasOption(new.options, op[p].key)
                  /\ optionValue(new.options, op[p].key) = op[p].value
                  /\ \A k \in OptionKeys \ {op[p].key} :
                        /\ hasOption(new.options, k) = hasOption(old.options, k)
                        /\ hasOption(old.options, k) =>
                              optionValue(new.options, k) = optionValue(old.options, k)]_vars

\* switch-model and modify-capacity were written one after the other and
\* the document holds both.
C7_Witness ==
    /\ Quiescent
    /\ \E p1, p2 \in Writers :
          /\ op[p1].key = "switch-model" /\ op[p2].key = "modify-capacity"
          /\ callOrder["config"][cfg] = <<p1, p2>>
          /\ hasOption(fs[cfg].obj.options, "switch-model")
          /\ optionValue(fs[cfg].obj.options, "switch-model") = op[p1].value
          /\ optionValue(fs[cfg].obj.options, "modify-capacity") = op[p2].value

(***************************************************************************)
(* C8: a read returns null exactly when the file does not exist, and fails *)
(* when the file is empty, not parseable or lacks a required field.        *)
(***************************************************************************)
RequiredFields(name) ==
    IF name = "getChannelInfo" THEN {"id", "name", "messages"} ELSE {"name", "options"}

C8_NullOnlyWhenMissing ==
    \A p \in Procs :
        (pc[p] = "done" /\ op[p].name \in Reads) =>
            /\ ret[p].kind = "null" <=> ret[p].data.kind = "absent"
            /\ ret[p].data.kind \in {"empty", "garbage"} => ret[p].kind = "error"
            /\ (/\ ret[p].data.kind = "json"
                /\ ~(RequiredFields(op[p].name) \subseteq ret[p].data.obj.has))
                  => ret[p].kind = "error"

\* getChannelInfo has failed on a file holding "{}".
C8_Witness ==
    \E p \in Procs :
        /\ pc[p] = "done" /\ op[p].name = "getChannelInfo"
        /\ ret[p].data = JSONstringify(NoObject)
        /\ ret[p].kind = "error"

(***************************************************************************)
(* C9: the messages a handler saves are the history it loaded followed by  *)
(* its own user message and reply, less what eviction took from the front: *)
(* no other handler's message is among them.                               *)
(***************************************************************************)
isSuffix(s, t) == Len(s) <= Len(t) /\ s = SubSeq(t, Len(t) - Len(s) + 1, Len(t))

C9_SavesOwnHistory ==
    \A u \in Users :
        hpc[u] \in {"save", "saved"} =>
            /\ isSuffix(saving[u], loaded[u] \o <<UserMsg(u), ReplyMsg(u)>>)
            /\ Len(saving[u]) >= 1

(***************************************************************************)
(* C10: after more enqueues than the capacity, the queue holds exactly the *)
(* last `capacity` items enqueued, in the order they were enqueued.        *)
(***************************************************************************)
C10_KeepsLastCapacity ==
    Len(pushed) > q.capacity =>
        /\ size(q) = q.capacity
        /\ getItems(q) = SubSeq(pushed, Len(pushed) - q.capacity + 1, Len(pushed))

C10_Witness ==
    /\ Len(pushed) > q.capacity
    /\ q.capacity >= 2
    /\ size(q) = q.capacity

(***************************************************************************)
(* C11: in every state of the queue, enqueue(x) followed at once by        *)
(* removeLast() leaves getItems() and size() as they were before the       *)
(* enqueue.                                                                *)
(***************************************************************************)
C11_RollbackRestores ==
    \A x \in Items :
        LET after == removeLast(enqueue(q, x))
        IN  /\ getItems(after) = getItems(q)
            /\ size(after) = size(q)

(***************************************************************************)
(* C12: setQueue(items) with more items than the capacity throws and       *)
(* leaves the queue as it was; with at most `capacity` items it replaces   *)
(* the contents by the items, in their order.                              *)
(***************************************************************************)
C12_SetQueueAllOrNothing ==
    [][qret'.op = "setQueue" =>
          IF Len(qret'.arg) > q.capacity
          THEN qret'.threw /\ q' = q
          ELSE /\ ~qret'.threw
               /\ getItems(q') = qret'.arg
               /\ q'.capacity = q.capacity]_vars

C12_Witness ==
    /\ qret.op = "setQueue"
    /\ qret.threw
    /\ Len(qret.arg) > q.capacity
    /\ size(q) > 0

(***************************************************************************)
(* C13: after any mutation of the queue (enqueue, dequeue, removeLast,     *)
(* setQueue, clear, an assignment to capacity), size() <= capacity and     *)
(* capacity >= 1.                                                          *)
(***************************************************************************)
C13_SizeWithinCapacity ==
    /\ size(q) <= q.capacity
    /\ q.capacity >= 1

(***************************************************************************)
(* C13, amended: capacity >= 1 always; size() <= capacity holds after      *)
(* every enqueue and every setQueue that returns, and every call that does *)
(* not lower the capacity keeps it when it held before.                    *)
(***************************************************************************)
C13_SizeWithinCapacityUnlessShrunk ==
    [][/\ q'.capacity >= 1
       /\ (q'.capacity >= q.capacity /\ size(q) <= q.capacity)
             => size(q') <= q'.capacity
       /\ (qret'.op = "enqueue" \/ (qret'.op = "setQueue" /\ ~qret'.threw))
             => size(q') <= q'.capacity]_vars

C13_Witness ==
    /\ qret.op = "enqueue"
    /\ qret.was = q.capacity
    /\ size(q) = q.capacity
    /\ q.capacity >= 2

(***************************************************************************)
(* C14: assigning a smaller capacity leaves the contents as they are; the  *)
(* next enqueue drops the oldest items until size() < capacity and then    *)
(* appends, so that size() <= capacity after it.                           *)
(***************************************************************************)
newest(storage, n) ==
    IF Len(storage) <= n THEN storage
    ELSE SubSeq(storage, Len(storage) - n + 1, Len(storage))

C14_ShrinkEvictsAtNextEnqueue ==
    [][/\ qret'.op = "capacity" => getItems(q') = getItems(q)
       /\ qret'.op = "enqueue" =>
             /\ q'.capacity = q.capacity
             /\ size(q') <= q'.capacity
             /\ getItems(q') = Append(newest(getItems(q), q.capacity - 1),
                                      pushed'[Len(pushed')])]_vars

C14_Witness ==
    /\ qret.op = "enqueue"
    /\ qret.was > q.capacity + 1
    /\ size(q) = q.capacity

(***************************************************************************)
(* C15: every document the message handler saves, a user's history or the  *)
(* channel's context, holds no more messages than the capacity its queue   *)
(* has when the save is made, and holds them oldest first.                 *)
(***************************************************************************)
\* a is known to be later than b: a message of this run against one of an
\* earlier conversation, or a reply against the message it answers.
later(a, b) ==
    \/ a.content > 0 /\ b.content = 0
    \/ \E u \in Users : a = ReplyMsg(u) /\ b = UserMsg(u)

chronological(messages) ==
    \A i, j \in 1..Len(messages) : i < j => ~later(messages[i], messages[j])

C15_SavesWithinCapacityInOrder ==
    [][\A u \in Users :
          /\ saving'[u] # saving[u] =>
                /\ Len(saving'[u]) <= msgHist'.capacity
                /\ chronological(saving'[u])
          /\ ctxSaving'[u] # ctxSaving[u] =>
                /\ Len(ctxSaving'[u]) <= chanHist'.capacity
                /\ chronological(ctxSaving'[u])]_vars

C15_Witness ==
    \E u \in Users :
        /\ hpc[u] = "saved"
        /\ msgHist.capacity < DefaultCapacity
        /\ Len(saving[u]) = msgHist.capacity
        /\ Len(ctxSaving[u]) = DefaultCapacity
        /\ Len(loaded[u]) >= 2

(***************************************************************************)
(* C16: a resolved file path has exactly one lock: no two callers get two  *)
(* different Mutex objects for the same path, and no two locked sections   *)
(* on the same file overlap, whichever store module they are in.           *)
(***************************************************************************)
inLockedSection(p) == pc[p] \notin {"idle", "wait", "done"}

C16_OneLockPerPath ==
    /\ \A f \in Files : Cardinality({m \in Managers : mutex[m][f].made}) <= 1
    /\ \A p1, p2 \in Procs :
          (p1 # p2 /\ inLockedSection(p1) /\ inLockedSection(p2))
              => op[p1].file # op[p2].file

(***************************************************************************)
(* C17: once openConfig(f, k, v) has written the file, be it by creating   *)
(* or by updating it, every further openConfig(f, k, v) with the same      *)
(* arguments leaves the text of the file exactly as it is.                 *)
(***************************************************************************)
repeats(p) ==
    /\ op[p].name = "openConfig"
    /\ \E earlier \in Procs \ {p} :
          pc[earlier] = "done" /\ ret[earlier].kind = "void" /\ op[earlier] = op[p]
    /\ \A other \in Procs \ {p} : op[other].name = "openConfig" => op[other] = op[p]

C17_RepeatIsStable ==
    [][\A p \in Procs :
          (repeats(p) /\ pc[p] # "done" /\ pc'[p] = "done" /\ ret'[p].kind = "void")
              => fs'[op[p].file] = fs[op[p].file]]_vars

C17_Witness ==
    \E p \in Procs :
        /\ repeats(p)
        /\ pc[p] = "done"
        /\ ret[p].kind = "void"
        /\ fs0[cfg].kind = "absent"
        /\ callOrder["config"][cfg][Len(callOrder["config"][cfg])] = p

(***************************************************************************)
(* C18: deleteConfig and deleteChannelInfo remove the file and return true *)
(* when it is there, return false and raise nothing when it is not, and    *)
(* change no other file.                                                   *)
(***************************************************************************)
deletes(call) == call.name \in {"deleteConfig", "deleteChannelInfo"}

C18_DeleteRemovesOnlyItsFile ==
    [][\A p \in Procs :
          (pc[p] = "idle" /\ deletes(op'[p])) =>
              LET f == op'[p].file
              IN  /\ ret'[p].kind = IF fs[f].kind = "absent" THEN "false" ELSE "true"
                  /\ fs'[f] = Absent
                  /\ \A g \in Files \ {f} : fs'[g] = fs[g]
                  /\ tmp' = tmp]_vars

C18_Witness ==
    \E p, second \in Procs :
        /\ deletes(op[p]) /\ ret[p].kind = "true"
        /\ deletes(op[second]) /\ ret[second].kind = "false"
        /\ op[p].file = op[second].file
        /\ fs[op[p].file].kind = "absent"

(***************************************************************************)
(* C19: sanitizeFilename throws when the input is empty, when it is longer *)
(* than the ceiling of 255, or when nothing is left of it after stripping; *)
(* in every other case it returns a key.                                   *)
(***************************************************************************)
called == safeName # NotCalled

emptied == filename # <<>> /\ \A i \in 1..Len(filename) : filename[i] = "NUL"

C19_ThrowsOnEmptyLongOrEmptied ==
    called =>
        (safeName.kind = "throw"
            <=> (filename = <<>> \/ Len(filename) > LengthCeiling \/ emptied))

(***************************************************************************)
(* C19, amended: sanitizeFilename throws when the input is empty or when   *)
(* nothing is left of it after stripping; what is longer than 255 after    *)
(* stripping is cut to its first 255 characters and returned; in every     *)
(* other case it returns a key.                                            *)
(***************************************************************************)
C19_ThrowsOnEmptyOrEmptied ==
    called =>
        /\ safeName.kind = "throw" <=> (filename = <<>> \/ emptied)
        /\ safeName.kind = "path" =>
              LET whole == stripped(filename)
              IN  safeName.path = IF Len(whole) > LengthCeiling
                                  THEN SubSeq(whole, 1, LengthCeiling) ELSE whole

C19_Witness ==
    /\ called
    /\ Len(filename) > LengthCeiling
    /\ safeName.kind = "path"
    /\ Len(safeName.path) = LengthCeiling

(***************************************************************************)
(* C20: a string sanitizeFilename returns has no '/' and no '\', has no    *)
(* control character, does not start with a dot, and is 1 to 255 long.     *)
(***************************************************************************)
C20_KeyIsClean ==
    safeName.kind = "path" =>
        LET key == safeName.path
        IN  /\ \A i \in 1..Len(key) : key[i] \notin {"/", "\\", "NUL", "CTL"}
            /\ Len(key) >= 1
            /\ Len(key) <= LengthCeiling
            /\ key[1] # "."

C20_Witness ==
    /\ safeName.kind = "path"
    /\ Len(filename) = MaxRawLen
    /\ filename[1] = "."
    /\ \E i \in 1..Len(filename) : filename[i] = "CTL"
    /\ \E i \in 1..Len(filename) : filename[i] \in {"/", "\\"}

(***************************************************************************)
(* C21: getSafeDataPath throws, instead of returning a path, for a         *)
(* filename that holds a traversal sequence (two dots and a separator),    *)
(* starts with a separator, or holds a NUL.                                *)
(***************************************************************************)
traversal(s) ==
    \/ \E i \in 1..(Len(s) - 2) :
           /\ s[i] = "." /\ s[i + 1] = "."
           /\ s[i + 2] \in {"/", "\\"}
    \/ (Len(s) > 0 /\ s[1] = "/")
    \/ \E i \in 1..Len(s) : s[i] = "NUL"

C21_ThrowsOnTraversalOrNul ==
    (resolved # NotCalled /\ traversal(filename)) => resolved.kind = "throw"

(***************************************************************************)
(* C22: only an integer from 1 to 100 passes validateCapacity, which       *)
(* returns it unchanged.  A /modify-capacity whose input is rejected       *)
(* writes nothing: every capacity in a configuration file is the one the   *)
(* file held at the start or an integer from 1 to 100 that a command was   *)
(* given.  The handler never gives the queue a capacity outside 1 to 100.  *)
(***************************************************************************)
inRange(value) ==
    /\ value \in {Num(n) : n \in MinCapacity..MaxAllowedCapacity}

storedCapacity(text) ==
    IF JSONparse(text).ok /\ hasOption(text.obj.options, "modify-capacity")
    THEN optionValue(text.obj.options, "modify-capacity")
    ELSE Null

C22_OnlyValidCapacityPasses ==
    /\ \A p \in Procs :
          /\ op[p].name = "modify-capacity" =>
                /\ ~inRange(op[p].value)
                /\ pc[p] = "done" /\ ret[p] = Result("validation")
          /\ (op[p].name = "openConfig" /\ op[p].key = "modify-capacity") =>
                inRange(op[p].value)
    /\ \A u \in Users : \A text \in {fs[ConfigFile(u)], tmp[ConfigFile(u)]} :
          \/ storedCapacity(text) \in {Null, storedCapacity(fs0[ConfigFile(u)])}
          \/ /\ inRange(storedCapacity(text))
             /\ \E p \in Procs : /\ op[p].name = "openConfig"
                                 /\ op[p].file = ConfigFile(u)
                                 /\ op[p].value = storedCapacity(text)
    /\ msgHist.capacity \in MinCapacity..MaxAllowedCapacity
    /\ \/ msgHist.capacity = DefaultCapacity
       \/ \E u \in Users : storedCapacity(fs[ConfigFile(u)]) = Num(msgHist.capacity)

\* A command was refused for a fraction or a number that is too large, and
\* a message was handled for a user whose file holds such a capacity.
C22_Witness ==
    /\ \E p \in Procs :
          /\ op[p].name = "modify-capacity"
          /\ op[p].value \in {Special(1, "half"), Num(MaxAllowedCapacity + 1)}
    /\ \E u \in Users :
          /\ hpc[u] = "history"
          /\ storedCapacity(fs[ConfigFile(u)])
                 \in {Special(2, "half"), Num(MaxAllowedCapacity + 1), Num(0)}

(***************************************************************************)
(* C23: a store call whose fs call failed with an error other than         *)
(* file-not-found ends in a failure, never in a normal result.             *)
(***************************************************************************)
C23_FailurePropagates ==
    \A p \in faults : pc[p] = "done" /\ ret[p].kind = "error"

(***************************************************************************)
(* C24: isRateLimited(u) returns false exactly when u has no recorded      *)
(* cooldown or the time is at or after the expiry set by u's last call     *)
(* that returned false; so u's first request is not limited, two calls     *)
(* that return false for u are at least the cooldown apart, and a call     *)
(* that returns true leaves u's expiry as it was.                          *)
(***************************************************************************)
\* This step is a call of isRateLimited(u).
limiting(u) ==
    /\ rlret'.op = "isRateLimited" /\ rlret'.user = u
    /\ now' = now /\ cleanupDue' = cleanupDue

falseExactlyWhenFree(u) ==
    /\ rlret'.limited = FALSE <=>
          \/ get(cooldowns, u) = NoCooldown
          \/ lastAllowed(u).ever /\ now >= lastAllowed(u).at + cooldownMs
    /\ ~lastAllowed(u).ever => rlret'.limited = FALSE
    /\ rlret'.limited = TRUE => get(cooldowns', u) = get(cooldowns, u)
    /\ rlret'.limited = FALSE => get(cooldowns', u) = now + cooldownMs

C24_FalseCallsCooldownApart ==
    [][\A u \in UserIds : limiting(u) =>
          /\ falseExactlyWhenFree(u)
          /\ (rlret'.limited = FALSE /\ lastAllowed(u).ever) =>
                now >= lastAllowed(u).at + cooldownMs]_vars

\* The same, where two calls that return false are the cooldown apart
\* unless u's cooldown was cleared between them.
C24_FalseCallsCooldownApartUnlessCleared ==
    [][\A u \in UserIds : limiting(u) =>
          /\ falseExactlyWhenFree(u)
          /\ (rlret'.limited = FALSE /\ lastAllowed(u).ever /\ ~lastAllowed(u).cleared) =>
                now >= lastAllowed(u).at + cooldownMs]_vars

\* A request was refused during the cooldown an earlier request had set,
\* after the clock had moved.
C24_Witness ==
    \E u \in UserIds :
        /\ rlret = LimiterCall("isRateLimited", u, TRUE, 0)
        /\ lastAllowed(u).ever /\ ~lastAllowed(u).cleared
        /\ now > lastAllowed(u).at
        /\ get(cooldowns, u) = lastAllowed(u).at + cooldownMs

(***************************************************************************)
(* C25: isRateLimited(u) and clearCooldown(u) change only u's entry: for   *)
(* every other user the recorded expiry, and with it whether the user is   *)
(* limited and the remaining time, are as before.                          *)
(***************************************************************************)
\* Whether a request of v would be refused.
limitedNow(cds, v) == isRateLimited(cds, v, now, cooldownMs).limited

C25_OtherUsersUntouched ==
    [][\A u \in UserIds :
          (/\ rlret'.op \in {"isRateLimited", "clearCooldown"} /\ rlret'.user = u
           /\ now' = now /\ cleanupDue' = cleanupDue)
          => \A v \in UserIds \ {u} :
                /\ get(cooldowns', v) = get(cooldowns, v)
                /\ limitedNow(cooldowns', v) = limitedNow(cooldowns, v)
                /\ getRemainingTime(cooldowns', v, now')
                       = getRemainingTime(cooldowns, v, now)]_vars

\* One user's cooldown was cleared, or a request of that user let through,
\* while another user is limited.
C25_Witness ==
    \E u \in UserIds : \E v \in UserIds \ {u} :
        /\ rlret.op \in {"isRateLimited", "clearCooldown"} /\ rlret.user = u
        /\ rlret.limited = FALSE
        /\ limitedNow(cooldowns, v)
        /\ getRemainingTime(cooldowns, v, now) > 0

(***************************************************************************)
(* C26: once requests stop arriving, the periodic cleanup removes every    *)
(* recorded cooldown, so that activeCooldowns becomes 0 and stays 0; and   *)
(* cleanup never removes an entry whose cooldown has not expired.          *)
(***************************************************************************)
C26_CleanupRemovesExpiredOnly ==
    /\ <>[](activeCooldowns(cooldowns) = 0)
    /\ [][cleanupDue' # cleanupDue =>
             \A u \in UserIds :
                 (get(cooldowns, u) # NoCooldown /\ now < get(cooldowns, u))
                     => get(cooldowns', u) = get(cooldowns, u)]_vars

\* A cleanup has removed an expired cooldown and left one that has not
\* expired.
C26_Witness ==
    /\ rlret.op = "cleanup" /\ rlret.number > 0
    /\ \E u \in UserIds : get(cooldowns, u) # NoCooldown /\ now < get(cooldowns, u)

(***************************************************************************)
(* C27: delete-model, pull-model, toggle-chat and shutoff check the        *)
(* permission first.  Run without Administrator permission, or outside a   *)
(* server, the command sends one refusal and does nothing else: it starts  *)
(* no store call, and every change of the model library, of a file or of   *)
(* the client's connection is a step of a command run by an administrator. *)
(***************************************************************************)
refused(p) ==
    /\ interaction[p].step # "none"
    /\ interaction[p].permission # "admin"

C27_AdminCheckedFirst ==
    /\ [](\A p \in Procs : refused(p) =>
             /\ pc[p] = "idle" /\ op[p] = NoOp
             /\ \/ interaction[p].step = "admin" /\ interaction[p].replies = <<>>
                \/ /\ interaction[p].step = "done"
                   /\ interaction[p].replies \in
                          {<<"Server Only Command">>, <<"PERMISSION_DENIED">>})
    /\ [][(models' # models \/ clientUp' # clientUp \/ fs' # fs \/ tmp' # tmp) =>
             \E p \in Procs :
                 /\ interaction[p].permission = "admin"
                 /\ interaction[p].step \in {"run", "call"}
                 /\ interaction'[p] # interaction[p] \/ pc'[p] # pc[p]]_vars

\* Two commands were refused, one run in a direct message and one run by a
\* member who is not an administrator, with the library, the files and the
\* client as they were.
C27_Witness ==
    /\ \E p \in Procs : /\ interaction[p].permission = "dm"
                        /\ interaction[p].replies = <<"Server Only Command">>
    /\ \E p \in Procs : /\ interaction[p].permission = "member"
                        /\ interaction[p].command \in {"shutoff", "delete-model"}
                        /\ interaction[p].replies = <<"PERMISSION_DENIED">>
    /\ clientUp /\ fs = fs0

\* The server's configuration on disk says that chat is disabled.
chatDisabled ==
    LET serverConfig == readConfig(fs[ServerConfigFile])
    IN  /\ serverConfig.kind = "doc"
        /\ hasOption(serverConfig.data.obj.options, "toggle-chat")
        /\ optionValue(serverConfig.data.obj.options, "toggle-chat") = Bool(0)

\* The steps of the handler that follow the toggle-chat check, up to the
\* query of the backend and the save of the history.
responding ==
    {"config", "config2", "config_create", "history", "history2",
     "history_create", "query", "save", "saved", "done"}

(* C28: for a message that does not mention the bot, or whose guild has
   toggle-chat set to false, the handler never reaches the steps that read
   the user's configuration, load the history, query the backend or save
   the history, the user's history file stays as it was, and once the
   handler has returned at the mention check or the toggle-chat check the
   message is among those handed to the channel context's save. *)
C28_SilentUnlessMentionedAndEnabled ==
    \A u \in Users :
        (~mentions[u] \/ chatDisabled) =>
            /\ hpc[u] \notin responding
            /\ fs[HistoryFile(u)] = fs0[HistoryFile(u)]
            /\ hpc[u] \in {"ignored", "disabled"} =>
                  /\ \E i \in DOMAIN ctxSaving[u] : ctxSaving[u][i] = UserMsg(u)
                  /\ fs[ContextFile] # Absent

C28_Witness ==
    \E u, v \in Users :
        /\ ~mentions[u] /\ hpc[u] = "ignored"
        /\ mentions[v] /\ chatDisabled /\ hpc[v] = "disabled"

\* The handler of u is at its getChannelInfo of the history, and the file
\* holds a history the store accepts.
loadsHistory(u) ==
    /\ hpc[u] \in {"history", "history2"}
    /\ readChannelInfo(fs[HistoryFile(u)]).kind = "doc"

(* C29: whenever the handler loads a stored history, the history is no
   longer than the queue's capacity at that moment, and the handler goes on
   to the query of the backend. *)
C29_LoadedHistoryFitsCapacity ==
    [][\A u \in Users :
          (loadsHistory(u) /\ hpc'[u] # hpc[u]) =>
              /\ Len(readChannelInfo(fs[HistoryFile(u)]).data.obj.messages)
                     <= msgHist.capacity
              /\ hpc'[u] = "query"]_vars

(* C30: a clearChannelInfo call that ends while the history file does not
   exist returns false, whether the file was missing at the existence check
   or was removed between the check and the locked read. *)
C30_ClearOfMissingFileReturnsFalse ==
    [][\A p \in Procs :
          (/\ op'[p].name = "clearChannelInfo"
           /\ pc[p] # "done" /\ pc'[p] = "done"
           /\ fs[op'[p].file].kind = "absent")
              => ret'[p] = Result("false")]_vars

\* The lock manager of the module a call belongs to.
managerOf(name) == IF name = "openConfig" THEN "config" ELSE "chat"

\* The process that holds the lock p's call asked for (0 when it is free).
holderFor(p) == mutex[managerOf(op[p].name)][op[p].file].holder

(* C31: a call that waits for a lock waits for a call of the same module on
   the same file, which is inside its locked section; a call on a file no
   other call is working on never waits. *)
C31_WaitsOnlyForSameFile ==
    \A p \in Procs :
        pc[p] = "wait" =>
            /\ holderFor(p) \in Procs \ {p}
            /\ op[holderFor(p)].file = op[p].file
            /\ managerOf(op[holderFor(p)].name) = managerOf(op[p].name)
            /\ inLockedSection(holderFor(p))

C31_Witness ==
    \E p, p2 \in Procs :
        /\ p # p2
        /\ op[p].file # op[p2].file
        /\ managerOf(op[p].name) = managerOf(op[p2].name)
        /\ inLockedSection(p) /\ inLockedSection(p2)

\* The handler of u has pushed its message and waits for the backend.
pushedOwn(u) == hpc[u] = "query"

\* The request of u fails at this step: an error is caught, or the backend
\* answers with nothing.
failsNow(u) ==
    \/ hpc[u] # "failed" /\ hpc'[u] = "failed"
    \/ hpc[u] = "query" /\ hpc'[u] = "done"

(* C32: when a request fails after the handler pushed the user's message,
   the queue loses exactly that message, which is its newest item; when it
   fails before the push, the queue is left as it is. *)
C32_RollbackRemovesOwnMessageOnly ==
    [][\A u \in Users :
          failsNow(u) =>
              IF pushedOwn(u)
              THEN /\ size(msgHist) > 0
                   /\ getItems(msgHist)[size(msgHist)] = UserMsg(u)
                   /\ msgHist' = removeLast(msgHist)
              ELSE msgHist' = msgHist]_vars

\* The capacity the configuration file of u asks for: its modify-capacity
\* when that is a valid capacity, the default otherwise.
configuredCapacity(u) ==
    LET userConfig == readConfig(fs[ConfigFile(u)])
        options == userConfig.data.obj.options
    IN  IF /\ userConfig.kind = "doc"
           /\ hasOption(options, "modify-capacity")
           /\ optionValue(options, "modify-capacity").type = "number"
           /\ "what" \notin DOMAIN optionValue(options, "modify-capacity")
           /\ validCapacity(optionValue(options, "modify-capacity").v)
        THEN optionValue(options, "modify-capacity").v
        ELSE DefaultCapacity

(* C33: while the request of a user waits for the backend, the capacity of
   the history queue is the one that user has configured, or the default of
   5 when the user has configured none. *)
C33_CapacityIsTheUsersOwn ==
    \A u \in Users : hpc[u] = "query" => msgHist.capacity = configuredCapacity(u)

\* The handler of u has left the part that deals with the channel context.
pastContext(u) ==
    hpc[u] \notin {"context", "context2", "context_create", "context_save"}

\* The messages of the context document on disk.
storedContext ==
    LET channelInfoRead == readChannelInfo(fs[ContextFile])
    IN  IF channelInfoRead.kind = "doc"
        THEN channelInfoRead.data.obj.messages ELSE <<>>

within(item, items) == \E i \in DOMAIN items : items[i] = item

(* C34: once a handler has saved the context with its message in it, the
   message is in the context document on disk, whatever the other handlers
   save (no more messages arrive than the context can hold). *)
C34_ContextKeepsEveryMessage ==
    \A u \in Users :
        (pastContext(u) /\ within(UserMsg(u), ctxSaving[u]))
            => within(UserMsg(u), storedContext)

\* Process p takes a step of a call of the given names.
stepOf(p, names) == op[p].name \in names /\ pc'[p] # pc[p]

(* C35: the files of different kinds of record are different files: a step
   of openConfig (a configuration write) leaves every history file as it
   is, and a step of saveChannelInfo (a history write) leaves every
   configuration file as it is. *)
C35_RecordKindsApart ==
    [][\A p \in Procs :
          /\ stepOf(p, {"openConfig"}) =>
                 /\ fs'[HistoryFileOfConfig] = fs[HistoryFileOfConfig]
                 /\ \A u \in Users : fs'[HistoryFile(u)] = fs[HistoryFile(u)]
          /\ stepOf(p, {"saveChannelInfo"}) =>
                 /\ fs'[ConfigFileOfDigits] = fs[ConfigFileOfDigits]
                 /\ \A u \in Users : fs'[ConfigFile(u)] = fs[ConfigFile(u)]]_vars

(* C36: the file the handler writes a user's history to, when it creates
   the history and when it saves it after the reply, is the file it reads
   the history of that user from. *)
C36_SavesWhereItReads ==
    [][\A u \in Users :
          /\ (hpc[u] = "history_create" /\ hpc'[u] = "history2") =>
                 fs'[HistoryFile(u)] =
                     JSONstringify(channelInfo("chan", "general", "user", <<>>))
          /\ (hpc[u] = "save" /\ hpc'[u] = "saved") =>
                 fs'[HistoryFile(u)] =
                     JSONstringify(channelInfo("chan", "general", "user", saving[u]))]_vars

\* The messages of the history on disk (none when there is no document).
storedMessages(data) ==
    LET channelInfoRead == readChannelInfo(data)
    IN  IF channelInfoRead.kind = "doc"
        THEN channelInfoRead.data.obj.messages ELSE <<>>

(* C37: a request that ended with an empty response or with a caught error
   leaves the messages stored for its user as they were before it; the
   stored messages differ from those only once a request has saved them
   after a reply, and then they end with the assistant's response. *)
C37_FailureLeavesHistory ==
    \A u \in Users :
        /\ hpc[u] \in {"failed", "done"} =>
               storedMessages(fs[HistoryFile(u)]) = storedMessages(fs0[HistoryFile(u)])
        /\ storedMessages(fs[HistoryFile(u)]) # storedMessages(fs0[HistoryFile(u)]) =>
               /\ hpc[u] = "saved"
               /\ storedMessages(fs[HistoryFile(u)])
                      [Len(storedMessages(fs[HistoryFile(u)]))] = ReplyMsg(u)

C37_Witness ==
    \E u, v \in Users :
        /\ hpc[u] = "done" /\ fs0[HistoryFile(u)] # Absent
        /\ hpc[v] = "saved"
        /\ storedMessages(fs[HistoryFile(v)]) # storedMessages(fs0[HistoryFile(v)])

\* Process p takes a step of its call.
steps(p) == pc'[p] # pc[p]

(* C38: a call that was in progress on a file when deleteConfig or
   deleteChannelInfo removed that file and returned true does not bring the
   file back: no step of such a call turns the absent file into a present
   one. *)
C38_DeletedStaysDeleted ==
    [][\A p \in racing :
          (steps(p) /\ fs[op[p].file].kind = "absent")
              => fs'[op[p].file].kind = "absent"]_vars

\* The model the configuration of u on disk names ("none" without one).
chosenModel(data) ==
    LET userConfig == readConfig(data)
    IN  IF userConfig.kind = "doc" /\ hasOption(userConfig.data.obj.options, "switch-model")
        THEN optionValue(userConfig.data.obj.options, "switch-model")
        ELSE Str(0)

(* C39: when the handler's openConfig call that writes the default model
   finds a configuration that names a model already (written by a command
   after the handler found none), it leaves that model in place. *)
C39_DefaultKeepsExplicitChoice ==
    [][\A u \in Users :
          (/\ hpc[u] = "config_create" /\ hpc'[u] # hpc[u]
           /\ chosenModel(fs[ConfigFile(u)]) # Str(0))
              => chosenModel(fs'[ConfigFile(u)]) = chosenModel(fs[ConfigFile(u)])]_vars

\* Calls that write to a file under its lock.
LockedCalls == {"openConfig", "saveChannelInfo", "saveChannelContext", "clearChannelInfo"}

\* Every lock that is held is held by a call in progress on that file, and
\* calls wait only for a lock that is held.
locksHeldByRunningCalls ==
    \A m \in Managers, f \in Files :
        /\ mutex[m][f].holder # 0 =>
               /\ inLockedSection(mutex[m][f].holder)
               /\ op[mutex[m][f].holder].file = f
               /\ managerOf(op[mutex[m][f].holder].name) = m
        /\ mutex[m][f].waiters # <<>> => mutex[m][f].holder # 0

(* C40: a call that has ended, by returning or by throwing, holds no lock,
   so that no lock is held but by a call in progress; and from some moment
   on every write call that has been made has ended (a call that has ended
   stays so), provided each filesystem call returns or fails. *)
C40_LockReleasedAndCallsEnd ==
    /\ []locksHeldByRunningCalls
    /\ <>[](\A p \in Procs : op[p].name \in LockedCalls => pc[p] = "done")

C40_Witness ==
    \E p, r \in Procs :
        /\ p # r
        /\ op[p].name \in LockedCalls /\ pc[p] = "done" /\ ret[p].kind = "error"
        /\ op[r].name \in LockedCalls /\ op[r].file = op[p].file
        /\ managerOf(op[r].name) = managerOf(op[p].name)
        /\ \E i, j \in DOMAIN callOrder[managerOf(op[p].name)][op[p].file] :
              /\ i < j
              /\ callOrder[managerOf(op[p].name)][op[p].file][i] = p
              /\ callOrder[managerOf(op[p].name)][op[p].file][j] = r
        /\ pc[r] = "done" /\ ret[r].kind # "error"

====
